---- MODULE Spec2Model ----
(***************************************************************************)
(* A model of auto_mount: the mount registrar of src/src/mount_manager.rs  *)
(* (backup, prepare entries, rewrite /etc/fstab through a temporary file,  *)
(* validate, rename, mount -a, restore), the device filter of              *)
(* src/src/device_filter.rs, the GPT decision and the orchestrator of      *)
(* src/src/smart_mount.rs, the batch operations of                         *)
(* src/src/partition_manager.rs and src/src/filesystem.rs, and the         *)
(* discovery of src/src/device_discovery.rs.                               *)
(*                                                                         *)
(* Strings are sequences of one-character strings, so that starts_with,    *)
(* contains, trim and split_whitespace are computed as the code computes   *)
(* them.  A file is its sequence of lines plus the flag "the last line is  *)
(* terminated by a newline".  A byte count is its decimal digits.          *)
(*                                                                         *)
(* Spec, SpecRepeated: one call, successive calls of the mount registrar.  *)
(* SpecFilter, SpecGpt, SpecBatch: one call of the filter, of              *)
(* should_use_gpt, of a fail-fast batch operation.  SpecPipeline: one run  *)
(* of smart_auto_mount_with_config, calling all of them in turn.           *)
(* SpecCollect: a collect-results variant of partitioning, formatting or   *)
(* GPT conversion, run once or twice on the same devices.  SpecUnit:       *)
(* find_connected_satas source by source, validate_fstab on a file, and    *)
(* mount_devices of src/src/lib.rs on a table of bytes.  SpecWriters: two  *)
(* calls of the mount registrar that overlap on one table.                 *)
(* SpecTerminates: a direct call of the registrar or a run of the          *)
(* pipeline, every blocking call returning.                                *)
(***************************************************************************)
EXTENDS Integers, Sequences, FiniteSets, TLC

\* ------------------------------------------------------------------ bounds
\* longest pre-existing mount table, in lines
MaxLines == 1
\* longest device list handed to one call
MaxDevices == 2
\* longest device list when the call is repeated
MaxDevicesRepeated == 1
\* number of successive register calls on the same table
MaxCalls == 2

\* ----------------------------------------------------------------- strings
S_dev == <<"/", "d", "e", "v", "/">>
S_uuid == <<"U", "U", "I", "D", "=">>
S_mnt == <<"/", "m", "n", "t">>
S_ext4 == <<"e", "x", "t", "4">>
S_rw_acl == <<"r", "w", ",", "a", "c", "l">>
S_sda == S_dev \o <<"s", "d", "a">>
S_sda1 == S_dev \o <<"s", "d", "a", "1">>
\* a path outside the device namespace
S_bad == <<"s", "d", "b">>

Sp(n) == [k \in 1..n |-> " "]

IsSpace(c) == c \in {" ", "\t", "\n", "\r"}

\* str::starts_with
StartsWith(s, p) == Len(s) >= Len(p) /\ SubSeq(s, 1, Len(p)) = p

\* str::contains
Contains(s, t) ==
  \E k \in 1..(Len(s) - Len(t) + 1) : SubSeq(s, k, k + Len(t) - 1) = t

\* str::trim
RECURSIVE TrimStart(_)
TrimStart(s) ==
  IF s = <<>> \/ ~IsSpace(Head(s)) THEN s ELSE TrimStart(Tail(s))

RECURSIVE TrimEnd(_)
TrimEnd(s) ==
  IF s = <<>> \/ ~IsSpace(s[Len(s)]) THEN s ELSE TrimEnd(SubSeq(s, 1, Len(s) - 1))

Trim(s) == TrimEnd(TrimStart(s))

\* str::split_whitespace, collected: the maximal runs of non-space characters
RECURSIVE SplitFrom(_, _, _)
SplitFrom(s, cur, acc) ==
  IF s = <<>> THEN (IF cur = <<>> THEN acc ELSE Append(acc, cur))
  ELSE IF IsSpace(Head(s))
       THEN SplitFrom(Tail(s), <<>>, IF cur = <<>> THEN acc ELSE Append(acc, cur))
       ELSE SplitFrom(Tail(s), Append(cur, Head(s)), acc)

SplitWhitespace(s) == SplitFrom(s, <<>>, <<>>)

\* device.split('/').next_back(): the text after the last '/'
RECURSIVE LastSegment(_)
LastSegment(s) ==
  IF s = <<>> \/ s[Len(s)] = "/" THEN <<>>
  ELSE Append(LastSegment(SubSeq(s, 1, Len(s) - 1)), s[Len(s)])

\* ------------------------------------------------------------------- files
\* a path at which no file exists
NoFile == [exists |-> FALSE, lines |-> <<>>, nl |-> FALSE]

\* the file whose bytes are the lines, each one written by writeln!
WriteLines(ls) == [exists |-> TRUE, lines |-> ls, nl |-> ls # <<>>]

\* BufRead::lines: the lines without their terminators
ReadLines(f) == f.lines

\* fs::metadata(..).len(): the byte length
RECURSIVE SumLen(_)
SumLen(ls) == IF ls = <<>> THEN 0 ELSE Len(Head(ls)) + SumLen(Tail(ls))

FileSize(f) ==
  SumLen(f.lines) + (IF f.lines = <<>> THEN 0
                     ELSE Len(f.lines) - 1 + (IF f.nl THEN 1 ELSE 0))

\* what a copy or a write that stops early leaves behind: the last line is
\* missing
Truncations(f) ==
  IF f.lines = <<>> THEN {} ELSE {WriteLines(SubSeq(f.lines, 1, Len(f.lines) - 1))}

\* ------------------------------------------------------- values and errors
None == <<>>
Some(x) == <<x>>

NoErr == [kind |-> "none", at |-> "none", detail |-> <<>>]
\* an error value: its variant, the operation that raised it, its payload
MkErr(k, a) == [kind |-> k, at |-> a, detail |-> <<>>]

Ok(v) == [ok |-> TRUE, val |-> v, err |-> NoErr]
Err(e) == [ok |-> FALSE, val |-> <<>>, err |-> e]

\* MountConfig::default()
DefaultConfig ==
  [filesystem_type |-> S_ext4, mount_options |-> S_rw_acl, mount_base_path |-> S_mnt,
   backup_fstab |-> TRUE, validate_before_write |-> TRUE]

MountEntry(d, u, mp, fs, o) ==
  [device |-> d, uuid |-> u, mount_point |-> mp, filesystem |-> fs, options |-> o]

MountResult(d, mp, s, e) ==
  [device |-> d, mount_point |-> mp, success |-> s, error_message |-> e]

\* ------------------------------------------------- mount_manager.rs, pure
\* device_uuid: out is what `sudo blkid <device> -s UUID -o export` gave
RECURSIVE FirstUuidLine(_)
FirstUuidLine(ls) ==
  IF ls = <<>> THEN None
  ELSE IF StartsWith(Head(ls), S_uuid) THEN Some(Head(ls)) ELSE FirstUuidLine(Tail(ls))

device_uuid(device, out) ==
  IF out.spawn_failed THEN Err(MkErr("IoError", "blkid"))
  ELSE IF ~out.success THEN Err(MkErr("CommandFailed", "blkid"))
  ELSE IF FirstUuidLine(out.stdout) = None THEN Err(MkErr("UuidNotFound", "blkid"))
  ELSE Ok(FirstUuidLine(out.stdout)[1])

\* create_mount_point: made is what fs::create_dir_all returned
create_mount_point(mount_point, made) ==
  IF made \in {"Ok", "AlreadyExists"} THEN Ok(mount_point)
  ELSE Err(MkErr("MountPointCreationFailed", "create_dir_all"))

MountPointOf(device, cfg) == cfg.mount_base_path \o <<"/">> \o LastSegment(device)

\* the prefix check left out
prepare_mount_entry_unchecked(device, cfg, out, made) ==
  LET uuid == device_uuid(device, out) IN
  IF ~uuid.ok THEN Err(uuid.err)
  ELSE LET mount_point == MountPointOf(device, cfg) IN
       IF ~create_mount_point(mount_point, made).ok
       THEN Err(create_mount_point(mount_point, made).err)
       ELSE Ok(MountEntry(device, uuid.val, mount_point,
                          cfg.filesystem_type, cfg.mount_options))

prepare_mount_entry(device, cfg, out, made) ==
  IF ~StartsWith(device, S_dev) THEN Err(MkErr("InvalidDevice", "prepare"))
  ELSE LET uuid == device_uuid(device, out) IN
       IF ~uuid.ok THEN Err(uuid.err)
       ELSE LET mount_point == MountPointOf(device, cfg) IN
            IF ~create_mount_point(mount_point, made).ok
            THEN Err(create_mount_point(mount_point, made).err)
            ELSE Ok(MountEntry(device, uuid.val, mount_point,
                               cfg.filesystem_type, cfg.mount_options))

\* the options left out of the line
FstabLineNoOptions(entry) ==
  entry.uuid \o Sp(2) \o entry.mount_point \o Sp(2) \o entry.filesystem \o Sp(4)
    \o <<"0">> \o Sp(3) \o <<"0">>

\* the format! of update_fstab_safe
FstabLine(entry) ==
  entry.uuid \o Sp(2) \o entry.mount_point \o Sp(2) \o entry.filesystem \o Sp(4)
    \o entry.options \o Sp(4) \o <<"0">> \o Sp(3) \o <<"0">>

\* nothing removed
RetainLinesAll(lines, entries) == lines

\* current_lines.retain(|line| !mount_points.iter().any(|mp| line.contains(mp)))
RetainLines(lines, entries) ==
  SelectSeq(lines, LAMBDA line :
    ~\E k \in 1..Len(entries) : Contains(line, entries[k].mount_point))

NewLines(entries) == [k \in 1..Len(entries) |-> FstabLine(entries[k])]

\* the content update_fstab_safe builds in memory
BuildLines(lines, entries) == RetainLines(lines, entries) \o NewLines(entries)

\* short lines only
WrongFieldCountBelow(fields) == Len(fields) < 6

\* `if fields.len() != 6`
WrongFieldCount(fields) == Len(fields) # 6

\* validate_fstab on the lines of the file at fstab_path
RECURSIVE ValidateFrom(_, _)
ValidateFrom(ls, line_num) ==
  IF line_num > Len(ls) THEN Ok(<<>>)
  ELSE LET line == Trim(ls[line_num]) IN
       IF line = <<>> \/ Head(line) = "#" THEN ValidateFrom(ls, line_num + 1)
       ELSE IF WrongFieldCount(SplitWhitespace(line))
            THEN Err([kind |-> "ValidationFailed", at |-> "validate",
                      detail |-> <<line_num, Len(SplitWhitespace(line))>>])
            ELSE ValidateFrom(ls, line_num + 1)

validate_fstab(f) == ValidateFrom(ReadLines(f), 1)

\* ------------------------------------------------------------ the inputs
\* lines a mount table may hold before the first call: an entry for another
\* mount point, an entry as an earlier run wrote it for /dev/sda1, and a
\* malformed line of two fields
L_root == <<"/", "d", "e", "v", "/", "x", " ", "/", " ", "e", "x", "t", "4", " ",
            "r", "w", " ", "0", " ", "1">>
L_sda1 == FstabLine(MountEntry(S_sda1, S_uuid \o <<"2">>, S_mnt \o <<"/", "s", "d", "a", "1">>,
                               S_ext4, S_rw_acl))
L_short == <<"/", "d", "e", "v", "/", "x", " ", "/", "d", "a", "t", "a">>

LineUniverse == {L_root, L_sda1, L_short}

DeviceUniverse == {S_sda, S_sda1, S_bad}

SeqsUpTo(S, n) == UNION { [1..k -> S] : k \in 0..n }

\* a file of lines, the last one with or without its newline
Tables ==
  { [exists |-> TRUE, lines |-> ls, nl |-> b] :
      ls \in SeqsUpTo(LineUniverse, MaxLines), b \in BOOLEAN }
    \ { [exists |-> TRUE, lines |-> <<>>, nl |-> TRUE] }

Configs ==
  { [DefaultConfig EXCEPT !.backup_fstab = b, !.validate_before_write = v] :
      b \in BOOLEAN, v \in BOOLEAN }

\* what blkid can answer for a device
UuidOf(device) == S_uuid \o (IF device = S_sda THEN <<"1">> ELSE <<"2">>)
DevNameLine(device) == <<"D", "E", "V", "N", "A", "M", "E", "=">> \o device

BlkidOutputs(device) ==
  { [spawn_failed |-> FALSE, success |-> FALSE, stdout |-> <<>>],
    [spawn_failed |-> FALSE, success |-> TRUE, stdout |-> <<DevNameLine(device)>>],
    [spawn_failed |-> FALSE, success |-> TRUE,
     stdout |-> <<DevNameLine(device), UuidOf(device)>>] }

MkdirOutcomes == {"Ok", "PermissionDenied"}

\* ------------------------------------------------------------- the paths
fstab_path == "/etc/fstab"
\* the new content written in place
temp_path_in_place == fstab_path
temp_path == "/etc/fstab.tmp"
\* format!("{}.backup.{}", fstab_path, timestamp); one call, one timestamp
backup_file_path == "/etc/fstab.backup"

Paths == {fstab_path, temp_path, backup_file_path}

\* ------------------------------------------------------------- the state
VARIABLES
  devices,        \* the device list of the call
  config,         \* its MountConfig
  faults,         \* whether file operations and mount -a can fail in this run
  files,          \* path -> file
  synced,         \* the paths whose content sync_all has flushed
  dirs,           \* the mount-point directories that exist
  pc,             \* where mount_devices_with_config stands
  idx,            \* the position of the `for device in devices` loop
  backup_path,    \* Option<PathBuf>
  mount_entries,
  results,
  current_lines,  \* update_fstab_safe's lines in memory
  error,          \* the error of update_fstab_safe or apply_mounts being returned
  ret,            \* the value the call returned
  log,            \* the operations the call has performed, with their outcomes
  files0,         \* the files when the call began
  dirs0,          \* the directories when the call began
  calls,          \* the number of calls begun
  prev,           \* the previous call: what it returned and left behind
  f_devices,      \* filter_unmounted_hdd_devices: its device list
  disks,          \* the names of the mounted filesystem sources
  system,         \* collect_device_infos: its sysinfo::Disks snapshot
  device_infos,
  f_pc,           \* where the filter stands
  f_ret,          \* the value the filter returned
  lsblk_outs,     \* what lsblk answered, device by device
  g_devices,      \* should_use_gpt: its device list
  g_config,       \* its MountConfig {force_gpt, gpt_threshold_gb, skip_gpt}
  g_sizes,        \* the capacity each device has
  g_kinds,        \* how the capacity query of each device ends
  g_pc,           \* where should_use_gpt stands
  g_ret,          \* the value it returned
  g_queries,      \* the number of capacity queries it made
  b_op,           \* the batch operation running: create_partition, ..
  b_devices,      \* its device list
  b_idx,          \* the position of its `for device in devices` loop
  b_paths,        \* create_partition's partition_paths
  b_cmds,         \* the external commands it has run, with how they ended
  b_pc,           \* where it stands
  b_ret,          \* the value it returned
  p_pc,           \* the stage smart_auto_mount_with_config has called
  p_config,       \* its MountConfig
  p_devices,      \* its `devices`
  p_ret,          \* the value it returned
  p_log,          \* the stages that have returned, in order
  c_op,           \* the collect-results operation running
  c_fsname,       \* the filesystem-type string its caller holds
  c_devices,      \* its device list
  c_idx,          \* the position of its pass over the devices
  c_results,      \* the records collected so far
  c_cmds,         \* the external commands it has run, with how they ended
  c_pc,           \* where it stands
  c_ret,          \* the value it returned
  c_labels,       \* the devices whose partition table is GPT
  c_done,         \* the earlier run on the same devices: how it ended
  u_fn,           \* the function called on its own: discovery, the validator
  u_in,           \* what it is called with
  u_pc,           \* where it stands
  u_out,          \* the value it returned
  u_log,          \* the sources it has tried, in order
  w_files,        \* two overlapping register calls: the files they share
  w_pc,           \* where each call stands
  w_lines,        \* each call's lines in memory
  w_error,        \* the error each call is returning
  w_ret,          \* the value each call returned
  w_table0        \* the table before either call

mountVars == <<devices, config, faults, files, synced, dirs, pc, idx, backup_path,
               mount_entries, results, current_lines, error, ret, log, files0, dirs0,
               calls, prev>>

filterVars == <<f_devices, disks, system, device_infos, f_pc, f_ret, lsblk_outs>>

gptVars == <<g_devices, g_config, g_sizes, g_kinds, g_pc, g_ret, g_queries>>

\* what a step of the mount registrar leaves alone, and a step of the filter
batchVars == <<b_op, b_devices, b_idx, b_paths, b_cmds, b_pc, b_ret>>

pipeVars == <<p_pc, p_config, p_devices, p_ret, p_log>>

collectVars == <<c_op, c_fsname, c_devices, c_idx, c_results, c_cmds, c_pc, c_ret,
                 c_labels, c_done>>

unitVars == <<u_fn, u_in, u_pc, u_out, u_log>>

writerVars == <<w_files, w_pc, w_lines, w_error, w_ret, w_table0>>

notMountVars == <<filterVars, gptVars, batchVars, pipeVars, collectVars, unitVars, writerVars>>
notFilterVars == <<mountVars, gptVars, batchVars, pipeVars, collectVars, unitVars, writerVars>>
notGptVars == <<mountVars, filterVars, batchVars, pipeVars, collectVars, unitVars, writerVars>>
notBatchVars == <<mountVars, filterVars, gptVars, pipeVars, collectVars, unitVars, writerVars>>
notCollectVars == <<mountVars, filterVars, gptVars, batchVars, pipeVars, unitVars, writerVars>>
notUnitVars == <<mountVars, filterVars, gptVars, batchVars, pipeVars, collectVars, writerVars>>
notWriterVars == <<mountVars, filterVars, gptVars, batchVars, pipeVars, collectVars, unitVars>>

vars == <<mountVars, filterVars, gptVars, batchVars, pipeVars, collectVars, unitVars, writerVars>>

\* the filter is not running
FilterIdle ==
  /\ f_devices = <<>>
  /\ disks = {}
  /\ system = None
  /\ device_infos = <<>>
  /\ f_pc = "idle"
  /\ f_ret = [ok |-> FALSE, val |-> <<>>, err |-> NoErr]
  /\ lsblk_outs = <<>>

NoRet == [ok |-> FALSE, val |-> <<>>, err |-> NoErr]

\* should_use_gpt is not running
GptIdle ==
  /\ g_devices = <<>>
  /\ g_config = [force_gpt |-> FALSE, gpt_threshold_gb |-> 0, skip_gpt |-> FALSE]
  /\ g_sizes = <<>>
  /\ g_kinds = <<>>
  /\ g_pc = "idle"
  /\ g_ret = NoRet
  /\ g_queries = 0

\* no batch operation is running
BatchIdle ==
  /\ b_op = "none"
  /\ b_devices = <<>>
  /\ b_idx = 1
  /\ b_paths = <<>>
  /\ b_cmds = <<>>
  /\ b_pc = "idle"
  /\ b_ret = NoRet

\* smart_auto_mount_with_config is not running
PipeNoRet == [ok |-> FALSE, err |-> [variant |-> "none", inner |-> NoErr]]

PipeIdle ==
  /\ p_pc = "idle"
  /\ p_config = [force_gpt |-> FALSE, gpt_threshold_gb |-> 0, skip_gpt |-> FALSE]
  /\ p_devices = <<>>
  /\ p_ret = PipeNoRet
  /\ p_log = <<>>

\* no collect-results operation is running
CollectIdle ==
  /\ c_op = "none"
  /\ c_fsname = <<>>
  /\ c_devices = <<>>
  /\ c_idx = 1
  /\ c_results = <<>>
  /\ c_cmds = <<>>
  /\ c_pc = "idle"
  /\ c_ret = NoRet
  /\ c_labels = {}
  /\ c_done = <<>>

\* no function is being called on its own
UnitIdle ==
  /\ u_fn = "none"
  /\ u_in = <<>>
  /\ u_pc = "idle"
  /\ u_out = NoRet
  /\ u_log = <<>>

\* no overlapping calls are running
WritersIdle ==
  /\ w_files = <<>>
  /\ w_pc = <<>>
  /\ w_lines = <<>>
  /\ w_error = <<>>
  /\ w_ret = <<>>
  /\ w_table0 = NoFile

NoPrev == [valid |-> FALSE, ret |-> NoRet, table |-> NoFile, entries |-> <<>>]

Logged(op, res) == [op |-> op, res |-> res]

InitCall(deviceLists, f) ==
  /\ devices \in deviceLists
  /\ config \in Configs
  /\ faults = f
  /\ \E t \in Tables \cup {NoFile} :
       files = [p \in Paths |-> IF p = fstab_path THEN t ELSE NoFile]
  /\ synced = {}
  /\ dirs = {}
  /\ pc = "backup"
  /\ idx = 1
  /\ backup_path = None
  /\ mount_entries = <<>>
  /\ results = <<>>
  /\ current_lines = <<>>
  /\ error = NoErr
  /\ ret = NoRet
  /\ log = <<>>
  /\ files0 = files
  /\ dirs0 = dirs
  /\ calls = 1
  /\ prev = NoPrev
  /\ FilterIdle
  /\ GptIdle
  /\ BatchIdle
  /\ PipeIdle
  /\ CollectIdle
  /\ UnitIdle
  /\ WritersIdle

\* one call, in a world where every file operation and command can fail
Init == InitCall(SeqsUpTo(DeviceUniverse, MaxDevices), TRUE)

\* how a file operation or a command can end
IoOutcomes(fs) == IF fs THEN {"ok", "error"} ELSE {"ok"}

\* ------------------------------------------------ Step 1: create backup
\* fs::copy(from, to): an error, or the bytes that arrived at `to`
CopyResults(from, fs) ==
  IF ~from.exists THEN {Err(MkErr("IoError", "copy"))}
  ELSE {Ok(from)} \cup (IF fs THEN {Err(MkErr("IoError", "copy"))} ELSE {})

\* a copy that returned Ok although fewer bytes arrived: the case the length
\* check of create_fstab_backup is there for
ShortCopies(from, fs) ==
  IF from.exists /\ fs THEN { Ok(t) : t \in Truncations(from) } ELSE {}

create_fstab_backup(original, copy) ==
  IF ~copy.ok THEN Err(MkErr("IoError", "backup"))
  ELSE IF FileSize(original) # FileSize(copy.val) THEN Err(MkErr("BackupFailed", "backup"))
  ELSE Ok(backup_file_path)

\* the backup's error dropped instead of returned
BackupStepLenient(cfg, b) ==
  IF cfg.backup_fstab /\ b.ok THEN [go |-> TRUE, path |-> Some(b.val), ret |-> NoRet]
  ELSE [go |-> TRUE, path |-> None, ret |-> NoRet]

\* what `Some(create_fstab_backup(fstab_path)?)` leaves in backup_path, or returns
BackupStep(cfg, b) ==
  IF ~cfg.backup_fstab THEN [go |-> TRUE, path |-> None, ret |-> NoRet]
  ELSE IF b.ok THEN [go |-> TRUE, path |-> Some(b.val), ret |-> NoRet]
  ELSE [go |-> FALSE, path |-> None, ret |-> Err(b.err)]

Backup ==
  /\ pc = "backup"
  /\ \E copy \in CopyResults(files[fstab_path], faults)
                  \cup ShortCopies(files[fstab_path], faults) :
       LET b == create_fstab_backup(files[fstab_path], copy)
           step == BackupStep(config, b)
       IN /\ files' = IF config.backup_fstab /\ copy.ok
                      THEN [files EXCEPT ![backup_file_path] = copy.val]
                      ELSE files
          /\ backup_path' = step.path
          /\ ret' = step.ret
          /\ pc' = IF step.go THEN "prepare" ELSE "done"
          /\ log' = IF config.backup_fstab
                    THEN Append(log, Logged("backup", IF b.ok THEN "ok" ELSE b.err.kind))
                    ELSE log
  /\ UNCHANGED notMountVars
  /\ UNCHANGED <<devices, config, faults, synced, dirs, idx, mount_entries, results,
                 current_lines, error, files0, dirs0, calls, prev>>

\* ------------------------------------------- Step 2: prepare mount entries
\* the two arms of `match prepare_mount_entry(device, &config)`
PushEntry(entries, r) == IF r.ok THEN Append(entries, r.val) ELSE entries

PushResult(rs, device, r) ==
  Append(rs, IF r.ok THEN MountResult(device, r.val.mount_point, TRUE, None)
             ELSE MountResult(device, <<>>, FALSE, Some(r.err.kind)))

\* create_mount_point is reached once the prefix and the UUID are good
ReachesMkdir(device, out) == StartsWith(device, S_dev) /\ device_uuid(device, out).ok

Prepare ==
  /\ pc = "prepare"
  /\ idx <= Len(devices)
  /\ \E out \in BlkidOutputs(devices[idx]), made \in MkdirOutcomes :
       LET device == devices[idx]
           r == prepare_mount_entry(device, config, out, made)
       IN /\ mount_entries' = PushEntry(mount_entries, r)
          /\ results' = PushResult(results, device, r)
          /\ dirs' = IF ReachesMkdir(device, out) /\ made = "Ok"
                     THEN dirs \cup {MountPointOf(device, config)} ELSE dirs
          /\ log' = Append(log, Logged("prepare", IF r.ok THEN "ok" ELSE r.err.kind))
  /\ idx' = idx + 1
  /\ UNCHANGED notMountVars
  /\ UNCHANGED <<devices, config, faults, files, synced, pc, backup_path, current_lines,
                 error, ret, files0, dirs0, calls, prev>>

\* no early return
NothingPreparedIgnored(entries) == FALSE

\* `mount_entries.is_empty()`
NothingPrepared(entries) == entries = <<>>

\* the preparation loop started over when it prepared nothing
PrepareDoneRetries ==
  /\ pc = "prepare"
  /\ idx > Len(devices)
  /\ IF NothingPrepared(mount_entries)
     THEN pc' = "prepare" /\ idx' = 1
     ELSE pc' = "read" /\ idx' = idx
  /\ UNCHANGED notMountVars
  /\ UNCHANGED <<devices, config, faults, files, synced, dirs, backup_path,
                 mount_entries, results, current_lines, error, ret, log, files0, dirs0,
                 calls, prev>>

\* `if mount_entries.is_empty() { return Ok(results); }`
PrepareDone ==
  /\ pc = "prepare"
  /\ idx > Len(devices)
  /\ IF NothingPrepared(mount_entries)
     THEN pc' = "done" /\ ret' = Ok(results)
     ELSE pc' = "read" /\ ret' = ret
  /\ UNCHANGED notMountVars
  /\ UNCHANGED <<devices, config, faults, files, synced, dirs, idx, backup_path,
                 mount_entries, results, current_lines, error, log, files0, dirs0,
                 calls, prev>>

\* --------------------------------------- Step 3: update_fstab_safe, in steps
\* read the current table (a missing file is no lines), retain, push
ReadTable ==
  /\ pc = "read"
  /\ \E io \in IoOutcomes(faults /\ files[fstab_path].exists) :
       /\ current_lines' =
            IF io = "ok"
            THEN BuildLines(IF files[fstab_path].exists THEN ReadLines(files[fstab_path])
                            ELSE <<>>, mount_entries)
            ELSE current_lines
       /\ error' = IF io = "ok" THEN error ELSE MkErr("IoError", "read")
       /\ pc' = IF io = "ok" THEN "write" ELSE "failed"
       /\ log' = Append(log, Logged("read", IF io = "ok" THEN "ok" ELSE "IoError"))
  /\ UNCHANGED notMountVars
  /\ UNCHANGED <<devices, config, faults, files, synced, dirs, idx, backup_path,
                 mount_entries, results, ret, files0, dirs0, calls, prev>>

\* how File::create, the writeln! loop and sync_all can end
WriteOutcomes(fs) ==
  IF fs THEN {"ok", "create_failed", "writeln_failed", "sync_failed"} ELSE {"ok"}

\* the file at the path written to, after the outcome w
WrittenFile(old, lines, w) ==
  IF w = "create_failed" THEN {old}
  ELSE IF w = "writeln_failed" THEN Truncations(WriteLines(lines))
  ELSE {WriteLines(lines)}

\* File::create(&temp_path), writeln! per line, sync_all
WriteTemp ==
  /\ pc = "write"
  /\ \E w \in WriteOutcomes(faults) :
       \E f \in WrittenFile(files[temp_path], current_lines, w) :
         /\ files' = [files EXCEPT ![temp_path] = f]
         /\ synced' = IF w = "ok" THEN synced \cup {temp_path}
                      ELSE IF w = "create_failed" THEN synced
                      ELSE synced \ {temp_path}
         /\ error' = IF w = "ok" THEN error ELSE MkErr("IoError", w)
         /\ pc' = IF w = "ok" THEN "validate" ELSE "failed"
         /\ log' = Append(log, Logged("write", IF w = "ok" THEN "ok" ELSE "IoError"))
  /\ UNCHANGED notMountVars
  /\ UNCHANGED <<devices, config, faults, dirs, idx, backup_path, mount_entries, results,
                 current_lines, ret, files0, dirs0, calls, prev>>

\* `if config.validate_before_write { validate_fstab(&temp_path)?; }`
ValidateStep(cfg, f) == IF cfg.validate_before_write THEN validate_fstab(f) ELSE Ok(<<>>)

Validate ==
  /\ pc = "validate"
  /\ LET v == ValidateStep(config, files[temp_path])
     IN /\ pc' = IF v.ok THEN "rename" ELSE "failed"
        /\ error' = IF v.ok THEN error ELSE v.err
        /\ log' = IF config.validate_before_write
                  THEN Append(log, Logged("validate", IF v.ok THEN "ok" ELSE v.err.kind))
                  ELSE log
  /\ UNCHANGED notMountVars
  /\ UNCHANGED <<devices, config, faults, files, synced, dirs, idx, backup_path,
                 mount_entries, results, current_lines, ret, files0, dirs0, calls, prev>>

\* fs::rename(from, to): `to` now names the file, `from` names nothing
\* a rename that moves nothing
RenameFileLost(fs, from, to) == fs

\* fs::rename(from, to)
RenameFile(fs, from, to) ==
  IF from = to THEN fs ELSE [fs EXCEPT ![to] = fs[from], ![from] = NoFile]

Rename ==
  /\ pc = "rename"
  /\ \E io \in IoOutcomes(faults) :
       /\ files' = IF io = "ok" THEN RenameFile(files, temp_path, fstab_path) ELSE files
       /\ synced' = IF io = "ok" /\ temp_path # fstab_path
                    THEN (synced \ {temp_path}) \cup
                         (IF temp_path \in synced THEN {fstab_path} ELSE {})
                    ELSE synced
       /\ error' = IF io = "ok" THEN error ELSE MkErr("IoError", "rename")
       /\ pc' = IF io = "ok" THEN "apply" ELSE "failed"
       /\ log' = Append(log, Logged("rename", IF io = "ok" THEN "ok" ELSE "IoError"))
  /\ UNCHANGED notMountVars
  /\ UNCHANGED <<devices, config, faults, dirs, idx, backup_path, mount_entries, results,
                 current_lines, ret, files0, dirs0, calls, prev>>

\* ------------------------------------------------- Step 4: apply_mounts
\* how `sudo mount -a` can end
MountOutcomes(fs) ==
  IF fs THEN {"exit_zero", "exit_nonzero", "spawn_failed"} ELSE {"exit_zero"}

apply_mounts(out) ==
  IF out = "spawn_failed" THEN Err(MkErr("IoError", "mount"))
  ELSE IF out = "exit_nonzero" THEN Err(MkErr("CommandFailed", "mount"))
  ELSE Ok(<<>>)

Apply ==
  /\ pc = "apply"
  /\ \E out \in MountOutcomes(faults) :
       LET a == apply_mounts(out)
       IN /\ log' = Append(log, Logged("apply", IF a.ok THEN "ok" ELSE a.err.kind))
          /\ pc' = IF a.ok THEN "done" ELSE "failed"
          /\ ret' = IF a.ok THEN Ok(results) ELSE ret
          /\ error' = IF a.ok THEN error ELSE a.err
  /\ UNCHANGED notMountVars
  /\ UNCHANGED <<devices, config, faults, files, synced, dirs, idx, backup_path,
                 mount_entries, results, current_lines, files0, dirs0, calls, prev>>

\* ------------------------------------- the error arms: restore, return Err
\* restore_fstab_backup: fs::copy(backup_path, fstab_path)
restore_fstab_backup(copy) ==
  IF copy.ok THEN Ok(<<>>) ELSE Err(MkErr("IoError", "restore"))

\* `restore_fstab_backup(..)?; return Err(e);`
ReturnedErrorOfRestore(e, restored) == IF restored.ok THEN Err(e) ELSE Err(restored.err)

\* `let _ = restore_fstab_backup(..); return Err(e);`
ReturnedError(e, restored) == Err(e)

\* a restore that copies nothing
RestoredTablesNoop(table, from, copy) == {table}

\* the table after a restore: the copy's bytes, or on an error either the
\* table as it was or a truncated copy
RestoredTables(table, from, copy) ==
  IF copy.ok THEN {copy.val}
  ELSE {table} \cup (IF from.exists THEN Truncations(from) ELSE {})

\* the restore forgotten
RestoreNeverWanted(path) == FALSE

\* `if let Some(backup) = backup_path`
RestoreWanted(path) == path # None

Rollback ==
  /\ pc = "failed"
  /\ IF RestoreWanted(backup_path)
     THEN \E copy \in CopyResults(files[backup_path[1]], faults) :
            \E t \in RestoredTables(files[fstab_path], files[backup_path[1]], copy) :
              /\ files' = [files EXCEPT ![fstab_path] = t]
              /\ ret' = ReturnedError(error, restore_fstab_backup(copy))
              /\ log' = Append(log, Logged("restore",
                           IF copy.ok THEN "ok"
                           ELSE IF t = files[fstab_path] THEN "IoError"
                           ELSE "IoErrorPartial"))
     ELSE /\ ret' = Err(error)
          /\ UNCHANGED <<files, log>>
  /\ pc' = "done"
  /\ UNCHANGED notMountVars
  /\ UNCHANGED <<devices, config, faults, synced, dirs, idx, backup_path, mount_entries,
                 results, current_lines, error, files0, dirs0, calls, prev>>

Next ==
  \/ Backup
  \/ Prepare
  \/ PrepareDone
  \/ ReadTable
  \/ WriteTemp
  \/ Validate
  \/ Rename
  \/ Apply
  \/ Rollback

Spec == Init /\ [][Next]_vars

\* ------------------------------------------------------ the next call
\* after a call that registered entries, the caller registers the same
\* devices with the same MountConfig again
NextCall ==
  /\ pc = "done"
  /\ ret.ok
  /\ mount_entries # <<>>
  /\ calls < MaxCalls
  /\ calls' = calls + 1
  /\ prev' = [valid |-> TRUE, ret |-> ret, table |-> files[fstab_path],
              entries |-> mount_entries]
  /\ pc' = "backup"
  /\ idx' = 1
  /\ backup_path' = None
  /\ mount_entries' = <<>>
  /\ results' = <<>>
  /\ current_lines' = <<>>
  /\ error' = NoErr
  /\ ret' = NoRet
  /\ log' = <<>>
  /\ files0' = files
  /\ dirs0' = dirs
  /\ UNCHANGED notMountVars
  /\ UNCHANGED <<devices, config, faults, files, synced, dirs>>

\* successive calls, in a world where file operations and mount -a succeed
InitRepeated == InitCall(SeqsUpTo(DeviceUniverse, MaxDevicesRepeated), FALSE)

NextRepeated == Next \/ NextCall

SpecRepeated == InitRepeated /\ [][NextRepeated]_vars

\* ========================================================= device_filter.rs
S_sdb == S_dev \o <<"s", "d", "b">>
S_rota == <<"R", "O", "T", "A">>

FilterDeviceUniverse == {S_sda, S_sdb, S_sda1}

\* the mounted sources a snapshot can show
MountedUniverse == {S_sda1, S_sdb}

\* what `sudo lsblk -d -o rota <device>` can answer; spawned = FALSE is
\* `.output()` failing to run the command
LsblkOutputs ==
  { [spawned |-> FALSE, success |-> FALSE, stdout |-> <<>>],
    [spawned |-> TRUE, success |-> FALSE, stdout |-> <<>>],
    [spawned |-> TRUE, success |-> TRUE, stdout |-> <<S_rota>>],
    [spawned |-> TRUE, success |-> TRUE, stdout |-> <<S_rota, Sp(4) \o <<"1">>>>],
    [spawned |-> TRUE, success |-> TRUE, stdout |-> <<S_rota, Sp(4) \o <<"0">>>>] }

DeviceInfo(p, r, m) == [path |-> p, is_rotational |-> r, is_mounted |-> m]

\* an answer of fewer than two lines read as "not rotational"
is_rotational_device_lenient(device, out) ==
  IF ~out.spawned THEN Err(MkErr("IoError", "lsblk"))
  ELSE IF ~out.success THEN Err(MkErr("CommandFailed", "lsblk"))
  ELSE IF Len(out.stdout) < 2 THEN Ok(FALSE)
  ELSE Ok(Trim(out.stdout[2]) = <<"1">>)

is_rotational_device(device, out) ==
  IF ~out.spawned THEN Err(MkErr("IoError", "lsblk"))
  ELSE IF ~out.success THEN Err(MkErr("CommandFailed", "lsblk"))
  ELSE IF Len(out.stdout) < 2 THEN Err(MkErr("InvalidOutputFormat", "lsblk"))
  ELSE Ok(Trim(out.stdout[2]) = <<"1">>)

\* the device compared for equality with the source names
is_device_mounted_exact(device, sys) == Ok(\E disk_name \in sys : disk_name = device)

is_device_mounted(device, sys) == Ok(\E disk_name \in sys : Contains(disk_name, device))

\* sysinfo::Disks::new_with_refreshed_list()
create_disk_info(live) == Ok(live)

\* the test of every kept device turned around
KeepsNonHddOrMounted(info) == ~info.is_rotational \/ info.is_mounted

\* `.filter(|info| info.is_rotational && !info.is_mounted)`
Keeps(info) == info.is_rotational /\ ~info.is_mounted

\* `.filter(..).map(|info| info.path).collect()`
FilteredDevices(infos) ==
  LET kept == SelectSeq(infos, Keeps)
  IN [k \in 1..Len(kept) |-> kept[k].path]

MountIdle ==
  /\ devices = <<>>
  /\ config = DefaultConfig
  /\ faults = FALSE
  /\ files = [p \in Paths |-> NoFile]
  /\ synced = {}
  /\ dirs = {}
  /\ pc = "idle"
  /\ idx = 1
  /\ backup_path = None
  /\ mount_entries = <<>>
  /\ results = <<>>
  /\ current_lines = <<>>
  /\ error = NoErr
  /\ ret = NoRet
  /\ log = <<>>
  /\ files0 = files
  /\ dirs0 = dirs
  /\ calls = 1
  /\ prev = NoPrev

InitFilter ==
  /\ MountIdle
  /\ f_devices \in SeqsUpTo(FilterDeviceUniverse, MaxDevices)
  /\ disks \in SUBSET MountedUniverse
  /\ system = None
  /\ device_infos = <<>>
  /\ f_pc = "start"
  /\ f_ret = NoRet
  /\ lsblk_outs = <<>>
  /\ GptIdle
  /\ BatchIdle
  /\ PipeIdle
  /\ CollectIdle
  /\ UnitIdle
  /\ WritersIdle

\* collect_device_infos: `let system = create_disk_info()?;`
CreateDiskInfo ==
  /\ f_pc = "start"
  /\ system' = Some(create_disk_info(disks).val)
  /\ f_pc' = "collect"
  /\ UNCHANGED <<f_devices, disks, device_infos, f_ret, lsblk_outs>>
  /\ UNCHANGED notFilterVars

\* one turn of `for device in devices`: either `?` ends the call
ProbeDevice ==
  /\ f_pc = "collect"
  /\ Len(device_infos) < Len(f_devices)
  /\ \E out \in LsblkOutputs :
       LET device == f_devices[Len(device_infos) + 1]
           rot == is_rotational_device(device, out)
           mnt == is_device_mounted(device, system[1])
       IN /\ lsblk_outs' = Append(lsblk_outs, out)
          /\ IF rot.ok /\ mnt.ok
             THEN /\ device_infos' = Append(device_infos, DeviceInfo(device, rot.val, mnt.val))
                  /\ UNCHANGED <<f_pc, f_ret>>
             ELSE /\ f_ret' = Err(IF rot.ok THEN mnt.err ELSE rot.err)
                  /\ f_pc' = "done"
                  /\ UNCHANGED device_infos
  /\ UNCHANGED <<f_devices, disks, system>>
  /\ UNCHANGED notFilterVars

\* the loop is over: filter, map, collect, `Ok(filtered_devices)`
FilterCollected ==
  /\ f_pc = "collect"
  /\ Len(device_infos) = Len(f_devices)
  /\ f_ret' = Ok(FilteredDevices(device_infos))
  /\ f_pc' = "done"
  /\ UNCHANGED <<f_devices, disks, system, device_infos, lsblk_outs>>
  /\ UNCHANGED notFilterVars

NextFilter ==
  \/ CreateDiskInfo
  \/ ProbeDevice
  \/ FilterCollected

SpecFilter == InitFilter /\ [][NextFilter]_vars

\* =========================================================== smart_mount.rs
\* ----------------------------------------------- decimal numbers as strings
\* A byte count is the text blockdev prints and a u64: it is kept as its
\* decimal digits, and parsed, divided and compared digit by digit.
Digits == <<"0", "1", "2", "3", "4", "5", "6", "7", "8", "9">>

IsDigit(c) == \E d \in 1..10 : Digits[d] = c

DigitVal(c) == (CHOOSE d \in 1..10 : Digits[d] = c) - 1

\* the decimal digits of a natural number
RECURSIVE ToDigits(_)
ToDigits(n) ==
  IF n < 10 THEN <<Digits[n + 1]>>
  ELSE ToDigits(n \div 10) \o <<Digits[(n % 10) + 1]>>

\* no leading zeros, one digit at least
RECURSIVE StripZeros(_)
StripZeros(ds) ==
  IF Len(ds) > 1 /\ Head(ds) = "0" THEN StripZeros(Tail(ds)) ELSE ds

\* ds * m + carry
RECURSIVE MulAdd(_, _, _)
MulAdd(ds, m, carry) ==
  IF ds = <<>> THEN (IF carry = 0 THEN <<>> ELSE ToDigits(carry))
  ELSE LET v == DigitVal(ds[Len(ds)]) * m + carry
       IN MulAdd(SubSeq(ds, 1, Len(ds) - 1), m, v \div 10) \o <<Digits[(v % 10) + 1]>>

\* the digits of ds divided by d, by long division with remainder rem so far
RECURSIVE DivFrom(_, _, _)
DivFrom(ds, d, rem) ==
  IF ds = <<>> THEN <<>>
  ELSE LET v == rem * 10 + DigitVal(Head(ds))
       IN <<Digits[(v \div d) + 1]>> \o DivFrom(Tail(ds), d, v % d)

DivSmall(ds, d) == StripZeros(DivFrom(ds, d, 0))

\* a >= b digit by digit, for digit strings of the same length
RECURSIVE LexGe(_, _)
LexGe(a, b) ==
  IF a = <<>> THEN TRUE
  ELSE IF DigitVal(Head(a)) # DigitVal(Head(b)) THEN DigitVal(Head(a)) > DigitVal(Head(b))
  ELSE LexGe(Tail(a), Tail(b))

\* a >= b for numbers without leading zeros
GeDigits(a, b) == Len(a) > Len(b) \/ (Len(a) = Len(b) /\ LexGe(a, b))

\* u64::MAX = 18446744073709551615
U64Max ==
  <<"1", "8", "4", "4", "6", "7", "4", "4", "0", "7",
    "3", "7", "0", "9", "5", "5", "1", "6", "1", "5">>

\* str::parse::<u64>: an optional "+", then digits only, at least one, and a
\* value of at most u64::MAX
ParseU64(s) ==
  LET t == IF s # <<>> /\ Head(s) = "+" THEN Tail(s) ELSE s
  IN IF t = <<>> \/ (\E k \in 1..Len(t) : ~IsDigit(t[k]))
     THEN Err(MkErr("ParseIntError", "parse"))
     ELSE IF GeDigits(U64Max, StripZeros(t)) THEN Ok(StripZeros(t))
     ELSE Err(MkErr("ParseIntError", "parse"))

\* ------------------------------------------------------------ the strategist
gpt_threshold_default == 2000

SmartDefaultConfig ==
  [force_gpt |-> FALSE, gpt_threshold_gb |-> gpt_threshold_default, skip_gpt |-> FALSE]

\* `sudo blockdev --getsize64 <device>`: how the query of a device of the given
\* capacity can end.  A capacity is gb * 2^30 + rem bytes.
QueryKinds == {"spawn_failed", "exit_nonzero", "garbage", "overflow", "answers"}

BytesOf(size) ==
  StripZeros(MulAdd(MulAdd(MulAdd(ToDigits(size.gb), 1024, 0), 1024, 0), 1024, size.rem))

BlockdevOutput(kind, size) ==
  IF kind = "spawn_failed" THEN [spawned |-> FALSE, success |-> FALSE, stdout |-> <<>>]
  ELSE IF kind = "exit_nonzero" THEN [spawned |-> TRUE, success |-> FALSE, stdout |-> <<>>]
  ELSE IF kind = "garbage" THEN [spawned |-> TRUE, success |-> TRUE, stdout |-> <<"?", "\n">>]
  ELSE IF kind = "overflow"
    THEN [spawned |-> TRUE, success |-> TRUE,
          stdout |-> SubSeq(U64Max, 1, 19) \o <<"6", "\n">>]
  ELSE [spawned |-> TRUE, success |-> TRUE, stdout |-> BytesOf(size) \o <<"\n">>]

\* gigabytes of 1000 * 1000 * 1000 bytes
SizeGbDecimal(size_bytes) == DivSmall(DivSmall(DivSmall(size_bytes, 1000), 1000), 1000)

\* `Ok(size_bytes / (1024 * 1024 * 1024))`
SizeGb(size_bytes) == DivSmall(DivSmall(DivSmall(size_bytes, 1024), 1024), 1024)

get_device_size_gb(device, out) ==
  IF ~out.spawned THEN Err(MkErr("IoError", "blockdev"))
  ELSE IF ~out.success THEN Ok(<<"0">>)
  ELSE LET parsed == ParseU64(Trim(out.stdout))
       IN Ok(SizeGb(IF parsed.ok THEN parsed.val ELSE <<"0">>))

\* the comparison turned around
SizeReachesBelow(size_gb, threshold) == GeDigits(ToDigits(threshold), size_gb)

\* `size_gb >= config.gpt_threshold_gb`
SizeReaches(size_gb, threshold) == GeDigits(size_gb, ToDigits(threshold))

\* `if let Ok(size_gb) = get_device_size_gb(device) { if size_gb >= .. {`
QueryReaches(r, threshold) == r.ok /\ SizeReaches(r.val, threshold)

\* the loop `for device in devices` from position k on: whether it returns
\* Ok(true), and how many devices it has queried when it returns
RECURSIVE ScanSizes(_, _, _, _)
ScanSizes(devs, threshold, outs, k) ==
  IF k > Len(devs) THEN [found |-> FALSE, queries |-> Len(devs)]
  ELSE IF QueryReaches(get_device_size_gb(devs[k], outs[k]), threshold)
    THEN [found |-> TRUE, queries |-> k]
  ELSE ScanSizes(devs, threshold, outs, k + 1)

\* force_gpt looked at before skip_gpt
should_use_gpt_force_first(devs, cfg, outs) ==
  IF cfg.force_gpt THEN Ok(TRUE)
  ELSE IF cfg.skip_gpt THEN Ok(FALSE)
  ELSE Ok(ScanSizes(devs, cfg.gpt_threshold_gb, outs, 1).found)

should_use_gpt(devs, cfg, outs) ==
  IF cfg.skip_gpt THEN Ok(FALSE)
  ELSE IF cfg.force_gpt THEN Ok(TRUE)
  ELSE Ok(ScanSizes(devs, cfg.gpt_threshold_gb, outs, 1).found)

\* the capacity queries should_use_gpt makes on the way
CapacityQueries(devs, cfg, outs) ==
  IF cfg.skip_gpt \/ cfg.force_gpt THEN 0
  ELSE ScanSizes(devs, cfg.gpt_threshold_gb, outs, 1).queries

\* --------------------------------------------------- the strategist's inputs
GptDeviceUniverse == {S_sda, S_sdb}

\* 0 bytes, one byte less than 2000 GB, 2000 GB, 3000 GB
SizeUniverse ==
  { [gb |-> 0, rem |-> 0], [gb |-> 1999, rem |-> 1073741823],
    [gb |-> 2000, rem |-> 0], [gb |-> 3000, rem |-> 0] }

ThresholdUniverse == {0, 1, gpt_threshold_default, 3001}

GptConfigs ==
  [force_gpt : BOOLEAN, gpt_threshold_gb : ThresholdUniverse, skip_gpt : BOOLEAN]

\* what blockdev answers, device by device
GptOuts(kinds, sizes) == [k \in 1..Len(kinds) |-> BlockdevOutput(kinds[k], sizes[k])]

InitGpt ==
  /\ MountIdle
  /\ FilterIdle
  /\ g_devices \in SeqsUpTo(GptDeviceUniverse, MaxDevices)
  /\ g_config \in GptConfigs
  /\ g_sizes \in [1..Len(g_devices) -> SizeUniverse]
  /\ g_kinds \in [1..Len(g_devices) -> QueryKinds]
  /\ \A k \in 1..Len(g_devices) : g_kinds[k] # "answers" => g_sizes[k].gb = 0
  /\ g_pc = "start"
  /\ g_ret = NoRet
  /\ g_queries = 0
  /\ BatchIdle
  /\ PipeIdle
  /\ CollectIdle
  /\ UnitIdle
  /\ WritersIdle

\* should_use_gpt(&devices, &config)
ShouldUseGpt ==
  /\ g_pc = "start"
  /\ g_ret' = should_use_gpt(g_devices, g_config, GptOuts(g_kinds, g_sizes))
  /\ g_queries' = CapacityQueries(g_devices, g_config, GptOuts(g_kinds, g_sizes))
  /\ g_pc' = "done"
  /\ UNCHANGED <<g_devices, g_config, g_sizes, g_kinds>>
  /\ UNCHANGED notGptVars

NextGpt == ShouldUseGpt

SpecGpt == InitGpt /\ [][NextGpt]_vars

\* ============================================ partition_manager.rs, filesystem.rs
S_dev_sd == S_dev \o <<"s", "d">>

ErrOn(kind, at, device) == [kind |-> kind, at |-> at, detail |-> device]

\* a character outside ASCII, two bytes long in UTF-8
C_two_bytes == "e_acute"

\* the bytes a character takes
Utf8Len(c) == IF c = C_two_bytes THEN 2 ELSE 1

\* str::len: the length in bytes
RECURSIVE ByteLen(_)
ByteLen(s) == IF s = <<>> THEN 0 ELSE Utf8Len(Head(s)) + ByteLen(Tail(s))

\* the "/dev/" check alone
validate_device_path_prefix_only(device) ==
  IF ~StartsWith(device, S_dev)
  THEN Err(ErrOn("InvalidDevicePath", "validate_device_path", device))
  ELSE Ok(<<>>)

\* partition_manager.rs: "/dev/" first, then "/dev/sd" and 8 bytes
validate_device_path(device) ==
  IF ~StartsWith(device, S_dev)
  THEN Err(ErrOn("InvalidDevicePath", "validate_device_path", device))
  ELSE IF StartsWith(device, S_dev_sd) /\ ByteLen(device) = 8 THEN Ok(<<>>)
  ELSE Err(ErrOn("InvalidDevicePath", "validate_device_path", device))

\* filesystem.rs: "/dev/" only
fs_validate_device_path(device) ==
  IF ~StartsWith(device, S_dev)
  THEN Err(ErrOn("InvalidDevice", "validate_device_path", device))
  ELSE Ok(<<>>)

\* how `Command::new("sudo") .. .output()` can end
CmdOutcomes == {"spawn_failed", "exit_nonzero", "ok"}

\* `format!("{}1", device)`
PartitionPath(device) == device \o <<"1">>

\* sudo parted -s <device> mkpart primary ext4 0% 100%
create_single_partition_parted(device, out) ==
  IF ~validate_device_path(device).ok THEN validate_device_path(device)
  ELSE IF out = "spawn_failed" THEN Err(ErrOn("IoError", "parted mkpart", device))
  ELSE IF out = "exit_nonzero" THEN Err(ErrOn("CommandFailed", "parted mkpart", device))
  ELSE Ok(PartitionPath(device))

\* sudo parted -s <device> mklabel gpt
change_single_device_to_gpt(device, out) ==
  IF ~validate_device_path(device).ok THEN validate_device_path(device)
  ELSE IF out = "spawn_failed" THEN Err(ErrOn("IoError", "parted mklabel", device))
  ELSE IF out = "exit_nonzero" THEN Err(ErrOn("CommandFailed", "parted mklabel", device))
  ELSE Ok(<<>>)

\* sudo mkfs.ext4 -F <device>
format_single_device(device, out) ==
  IF ~fs_validate_device_path(device).ok THEN fs_validate_device_path(device)
  ELSE IF out = "spawn_failed" THEN Err(ErrOn("IoError", "mkfs.ext4", device))
  ELSE IF out = "exit_nonzero" THEN Err(ErrOn("FormatFailed", "mkfs.ext4", device))
  ELSE Ok(<<>>)

BatchOps == {"create_partition", "format_devices", "change_devices_to_gpt"}

\* the per-device function of each batch operation
RunOne(op, device, out) ==
  IF op = "create_partition" THEN create_single_partition_parted(device, out)
  ELSE IF op = "format_devices" THEN format_single_device(device, out)
  ELSE change_single_device_to_gpt(device, out)

\* whether the operation gets as far as its external command on the device
RunsCommand(op, device) ==
  IF op = "format_devices" THEN fs_validate_device_path(device).ok
  ELSE validate_device_path(device).ok

\* what the operation collects for a device: create_partition pushes the path
Collected(op, paths, r) == IF op = "create_partition" THEN Append(paths, r.val) ELSE paths

\* a failed device passed over
FailFastNever(r) == FALSE

\* the `?` after the per-device call
FailFast(r) == ~r.ok

S_nvme0n1 == S_dev \o <<"n", "v", "m", "e", "0", "n", "1">>
\* "/dev/sd" and one character of two bytes: eight characters, nine bytes
S_sd_two_bytes == S_dev_sd \o <<C_two_bytes>>

BatchDeviceUniverse == {S_sda, S_sdb, S_sda1, S_bad, S_dev, S_nvme0n1, S_sd_two_bytes}

\* one turn of `for device in devices`
BatchStep ==
  /\ b_pc = "loop"
  /\ b_idx <= Len(b_devices)
  /\ \E out \in CmdOutcomes :
       LET device == b_devices[b_idx]
           r == RunOne(b_op, device, out)
       IN /\ b_cmds' = IF RunsCommand(b_op, device)
                       THEN Append(b_cmds, [device |-> device, out |-> out])
                       ELSE b_cmds
          /\ IF FailFast(r)
             THEN /\ b_ret' = r
                  /\ b_pc' = "done"
                  /\ UNCHANGED <<b_idx, b_paths>>
             ELSE /\ b_paths' = Collected(b_op, b_paths, r)
                  /\ b_idx' = b_idx + 1
                  /\ UNCHANGED <<b_pc, b_ret>>
  /\ UNCHANGED <<b_op, b_devices>>
  /\ UNCHANGED notBatchVars

\* the loop is over: `Ok(partition_paths)`, `Ok(())`
BatchReturn ==
  /\ b_pc = "loop"
  /\ b_idx > Len(b_devices)
  /\ b_ret' = Ok(b_paths)
  /\ b_pc' = "done"
  /\ UNCHANGED <<b_op, b_devices, b_idx, b_paths, b_cmds>>
  /\ UNCHANGED notBatchVars

InitBatch ==
  /\ MountIdle
  /\ FilterIdle
  /\ GptIdle
  /\ PipeIdle
  /\ b_op \in BatchOps
  /\ b_devices \in SeqsUpTo(BatchDeviceUniverse, MaxDevices)
  /\ b_idx = 1
  /\ b_paths = <<>>
  /\ b_cmds = <<>>
  /\ b_pc = "loop"
  /\ b_ret = NoRet
  /\ CollectIdle
  /\ UnitIdle
  /\ WritersIdle

NextBatch ==
  \/ BatchStep
  \/ BatchReturn

SpecBatch == InitBatch /\ [][NextBatch]_vars

\* =========================== mount_manager.rs: two calls that overlap in time
\* the two calls, each one registering its own device with the default
\* MountConfig; neither mount point occurs in a line of the table
Writers == {1, 2}

S_sdc == S_dev \o <<"s", "d", "c">>

WriterDevice(p) == IF p = 1 THEN S_sdb ELSE S_sdc

\* the entry step 2 prepares for the call, blkid and create_dir_all succeeding
WriterEntry(p) ==
  MountEntry(WriterDevice(p), UuidOf(WriterDevice(p)),
             MountPointOf(WriterDevice(p), DefaultConfig),
             DefaultConfig.filesystem_type, DefaultConfig.mount_options)

\* format!("{}.backup.{}", fstab_path, timestamp): the calls start in
\* different seconds
WriterBackupPath(p) == IF p = 1 THEN "/etc/fstab.backup.1" ELSE "/etc/fstab.backup.2"

WriterPaths == {fstab_path, temp_path} \cup {WriterBackupPath(p) : p \in Writers}

InitWriters ==
  /\ MountIdle
  /\ FilterIdle
  /\ GptIdle
  /\ BatchIdle
  /\ PipeIdle
  /\ CollectIdle
  /\ UnitIdle
  /\ w_table0 \in Tables
  /\ w_files = [f \in WriterPaths |-> IF f = fstab_path THEN w_table0 ELSE NoFile]
  /\ w_pc = [p \in Writers |-> "backup"]
  /\ w_lines = [p \in Writers |-> <<>>]
  /\ w_error = [p \in Writers |-> NoErr]
  /\ w_ret = [p \in Writers |-> NoRet]

\* Step 1: fs::copy(fstab_path, &backup_path)
WriterBackup(p) ==
  /\ w_pc[p] = "backup"
  /\ w_files' = [w_files EXCEPT ![WriterBackupPath(p)] = w_files[fstab_path]]
  /\ w_pc' = [w_pc EXCEPT ![p] = "read"]
  /\ UNCHANGED <<w_lines, w_error, w_ret, w_table0>>
  /\ UNCHANGED notWriterVars

\* update_fstab_safe: read the table, drop the lines of the mount point, add
\* the entry
WriterRead(p) ==
  /\ w_pc[p] = "read"
  /\ w_lines' = [w_lines EXCEPT ![p] =
                   BuildLines(ReadLines(w_files[fstab_path]), <<WriterEntry(p)>>)]
  /\ w_pc' = [w_pc EXCEPT ![p] = "write"]
  /\ UNCHANGED <<w_files, w_error, w_ret, w_table0>>
  /\ UNCHANGED notWriterVars

\* File::create(&temp_path), writeln! per line, sync_all: both calls write
\* "/etc/fstab.tmp"
WriterWriteTemp(p) ==
  /\ w_pc[p] = "write"
  /\ w_files' = [w_files EXCEPT ![temp_path] = WriteLines(w_lines[p])]
  /\ w_pc' = [w_pc EXCEPT ![p] = "validate"]
  /\ UNCHANGED <<w_lines, w_error, w_ret, w_table0>>
  /\ UNCHANGED notWriterVars

\* validate_fstab(&temp_path)?: File::open fails when the other call has
\* renamed the file away
WriterValidate(p) ==
  /\ w_pc[p] = "validate"
  /\ LET v == IF w_files[temp_path].exists THEN validate_fstab(w_files[temp_path])
              ELSE Err(MkErr("IoError", "validate"))
     IN /\ w_pc' = [w_pc EXCEPT ![p] = IF v.ok THEN "rename" ELSE "failed"]
        /\ w_error' = [w_error EXCEPT ![p] = v.err]
  /\ UNCHANGED <<w_files, w_lines, w_ret, w_table0>>
  /\ UNCHANGED notWriterVars

\* fs::rename(&temp_path, fstab_path)?
WriterRename(p) ==
  /\ w_pc[p] = "rename"
  /\ IF w_files[temp_path].exists
     THEN /\ w_files' = RenameFile(w_files, temp_path, fstab_path)
          /\ w_pc' = [w_pc EXCEPT ![p] = "apply"]
          /\ UNCHANGED w_error
     ELSE /\ w_error' = [w_error EXCEPT ![p] = MkErr("IoError", "rename")]
          /\ w_pc' = [w_pc EXCEPT ![p] = "failed"]
          /\ UNCHANGED w_files
  /\ UNCHANGED <<w_lines, w_ret, w_table0>>
  /\ UNCHANGED notWriterVars

\* Step 4: apply_mounts(), `Ok(results)`
WriterApply(p) ==
  /\ w_pc[p] = "apply"
  /\ \E out \in {"exit_zero", "exit_nonzero"} :
       IF apply_mounts(out).ok
       THEN /\ w_ret' = [w_ret EXCEPT ![p] = Ok(<<WriterDevice(p)>>)]
            /\ w_pc' = [w_pc EXCEPT ![p] = "done"]
            /\ UNCHANGED w_error
       ELSE /\ w_error' = [w_error EXCEPT ![p] = apply_mounts(out).err]
            /\ w_pc' = [w_pc EXCEPT ![p] = "failed"]
            /\ UNCHANGED w_ret
  /\ UNCHANGED <<w_files, w_lines, w_table0>>
  /\ UNCHANGED notWriterVars

\* `let _ = restore_fstab_backup(fstab_path, &backup); return Err(e);`
WriterRollback(p) ==
  /\ w_pc[p] = "failed"
  /\ w_files' = [w_files EXCEPT ![fstab_path] = w_files[WriterBackupPath(p)]]
  /\ w_ret' = [w_ret EXCEPT ![p] = Err(w_error[p])]
  /\ w_pc' = [w_pc EXCEPT ![p] = "done"]
  /\ UNCHANGED <<w_lines, w_error, w_table0>>
  /\ UNCHANGED notWriterVars

NextWriters ==
  \E p \in Writers :
    \/ WriterBackup(p)
    \/ WriterRead(p)
    \/ WriterWriteTemp(p)
    \/ WriterValidate(p)
    \/ WriterRename(p)
    \/ WriterApply(p)
    \/ WriterRollback(p)

SpecWriters == InitWriters /\ [][NextWriters]_vars

\* ===================== partition_manager.rs, filesystem.rs: collecting variants
Uppers == <<"A", "B", "C", "D", "E", "F", "G", "H", "I", "J", "K", "L", "M", "N", "O", "P", "Q", "R", "S", "T", "U", "V", "W", "X", "Y", "Z">>
Lowers == <<"a", "b", "c", "d", "e", "f", "g", "h", "i", "j", "k", "l", "m", "n", "o", "p", "q", "r", "s", "t", "u", "v", "w", "x", "y", "z">>

\* char::to_lowercase on the characters the names are written with
ToLowerChar(c) ==
  IF \E k \in 1..Len(Uppers) : Uppers[k] = c
  THEN Lowers[CHOOSE k \in 1..Len(Uppers) : Uppers[k] = c]
  ELSE c

\* the lower-casing left out
to_lowercase_identity(s) == s

\* str::to_lowercase
to_lowercase(s) == [k \in 1..Len(s) |-> ToLowerChar(s[k])]

S_ext3 == <<"e", "x", "t", "3">>
S_ext2 == <<"e", "x", "t", "2">>
S_xfs == <<"x", "f", "s">>
S_btrfs == <<"b", "t", "r", "f", "s">>
S_ntfs == <<"n", "t", "f", "s">>
S_fat32 == <<"f", "a", "t", "3", "2">>

\* FilesystemType::from_str
from_str(fs_type) ==
  LET l == to_lowercase(fs_type) IN
  IF l = S_ext4 THEN Ok("Ext4")
  ELSE IF l = S_ext3 THEN Ok("Ext3")
  ELSE IF l = S_ext2 THEN Ok("Ext2")
  ELSE IF l = S_xfs THEN Ok("Xfs")
  ELSE IF l = S_btrfs THEN Ok("Btrfs")
  ELSE IF l = S_ntfs THEN Ok("Ntfs")
  ELSE IF l = S_fat32 THEN Ok("Fat32")
  ELSE Err(ErrOn("UnsupportedFilesystem", "from_str", fs_type))

\* FilesystemType::get_format_command: the program and its own arguments
get_format_command(filesystem) ==
  IF filesystem = "Ext4" THEN [cmd |-> "mkfs.ext4", args |-> <<"-F">>]
  ELSE IF filesystem = "Ext3" THEN [cmd |-> "mkfs.ext3", args |-> <<"-F">>]
  ELSE IF filesystem = "Ext2" THEN [cmd |-> "mkfs.ext2", args |-> <<"-F">>]
  ELSE IF filesystem = "Xfs" THEN [cmd |-> "mkfs.xfs", args |-> <<"-f">>]
  ELSE IF filesystem = "Btrfs" THEN [cmd |-> "mkfs.btrfs", args |-> <<"-f">>]
  ELSE IF filesystem = "Ntfs" THEN [cmd |-> "mkfs.ntfs", args |-> <<"-f", "-Q">>]
  ELSE [cmd |-> "mkfs.fat", args |-> <<"-F", "32">>]

\* format_single_device(device, &filesystem)
format_single_device_as(device, filesystem, out) ==
  IF ~fs_validate_device_path(device).ok THEN fs_validate_device_path(device)
  ELSE IF out = "spawn_failed"
       THEN Err(ErrOn("IoError", get_format_command(filesystem).cmd, device))
  ELSE IF out = "exit_nonzero"
       THEN Err(ErrOn("FormatFailed", get_format_command(filesystem).cmd, device))
  ELSE Ok(<<>>)

\* is_device_formatted: `sudo blkid <device>` exits with 0 when it finds a
\* filesystem
is_device_formatted(device, probe) ==
  IF probe = "spawn_failed" THEN Err(ErrOn("IoError", "blkid", device))
  ELSE Ok(probe = "ok")

S_table_gpt == <<"P", "a", "r", "t", "i", "t", "i", "o", "n", " ", "T", "a", "b", "l", "e", ":", " ", "g", "p", "t">>
S_table_msdos == <<"P", "a", "r", "t", "i", "t", "i", "o", "n", " ", "T", "a", "b", "l", "e", ":", " ", "m", "s", "d", "o", "s">>

\* what `sudo parted -s <device> print` writes for a device
PartedPrint(device, labels) == IF device \in labels THEN S_table_gpt ELSE S_table_msdos

\* every table taken for another kind
is_device_gpt_never(device, probe, labels) ==
  IF probe = "spawn_failed" THEN Err(ErrOn("IoError", "parted print", device))
  ELSE IF probe = "exit_nonzero" THEN Err(ErrOn("CommandFailed", "parted print", device))
  ELSE Ok(FALSE)

\* is_device_gpt: `stdout.contains("Partition Table: gpt")`
is_device_gpt(device, probe, labels) ==
  IF probe = "spawn_failed" THEN Err(ErrOn("IoError", "parted print", device))
  ELSE IF probe = "exit_nonzero" THEN Err(ErrOn("CommandFailed", "parted print", device))
  ELSE Ok(Contains(PartedPrint(device, labels), S_table_gpt))

PartitionResult(d, p, s) == [original_device |-> d, partition_path |-> p, success |-> s]

FormatResult(d, fs, s, e) ==
  [device |-> d, filesystem |-> fs, success |-> s, error_message |-> e]

GptConversionResult(d, s, e) == [device |-> d, success |-> s, error_message |-> e]

\* an error_message: the fixed text and the error it is formatted with
Message(text, e) == Some([text |-> text, kind |-> e.kind])

\* a command as the run records it: the program, the device, how it ended, and
\* for `parted print` whether it reported a GPT table
Cmd(name, device, out, gpt) == [cmd |-> name, device |-> device, out |-> out, gpt |-> gpt]

\* what one turn on one device comes to: an error raised out of the operation
\* or a record, and the commands run
Raised(e, cmds) == [raised |-> TRUE, err |-> e, record |-> None, cmds |-> cmds]
Record(r, cmds) == [raised |-> FALSE, err |-> NoErr, record |-> r, cmds |-> cmds]

\* the closure of create_partitions_with_results
create_partitions_with_results(device, out) ==
  LET r == create_single_partition_parted(device, out)
      cmds == IF validate_device_path(device).ok
              THEN <<Cmd("parted mkpart", device, out, FALSE)>> ELSE <<>>
  IN Record(IF r.ok THEN PartitionResult(device, r.val, TRUE)
            ELSE PartitionResult(device, <<>>, FALSE), cmds)

\* the closure of format_devices_with_results
format_devices_with_results(device, filesystem, out) ==
  LET r == format_single_device_as(device, filesystem, out)
      cmds == IF fs_validate_device_path(device).ok
              THEN <<Cmd(get_format_command(filesystem).cmd, device, out, FALSE)>> ELSE <<>>
  IN Record(IF r.ok THEN FormatResult(device, filesystem, TRUE, None)
            ELSE FormatResult(device, filesystem, FALSE, Message("", r.err)), cmds)

\* the loop body of format_devices_safe: `is_device_formatted(device)?` first
format_devices_safe(device, filesystem, probe, out) ==
  LET is_formatted == is_device_formatted(device, probe)
      asked == <<Cmd("blkid", device, probe, FALSE)>>
      made == format_devices_with_results(device, filesystem, out)
  IN IF ~is_formatted.ok THEN Raised(is_formatted.err, asked)
     ELSE IF is_formatted.val
          THEN Record(FormatResult(device, filesystem, TRUE,
                                   Message("Device already formatted, skipped", NoErr)),
                      asked)
     ELSE Record(made.record, asked \o made.cmds)

\* the closure of change_devices_to_gpt_with_results
change_devices_to_gpt_with_results(device, out) ==
  LET r == change_single_device_to_gpt(device, out)
      cmds == IF validate_device_path(device).ok
              THEN <<Cmd("parted mklabel", device, out, FALSE)>> ELSE <<>>
  IN Record(IF r.ok THEN GptConversionResult(device, TRUE, None)
            ELSE GptConversionResult(device, FALSE, Message("", r.err)), cmds)

\* the loop body of change_devices_to_gpt_safe: `match is_device_gpt(device)`
change_devices_to_gpt_safe(device, probe, out, labels) ==
  LET is_gpt == is_device_gpt(device, probe, labels)
      asked == <<Cmd("parted print", device, probe, is_gpt.ok /\ is_gpt.val)>>
      made == change_devices_to_gpt_with_results(device, out)
  IN IF ~is_gpt.ok
     THEN Record(GptConversionResult(device, FALSE,
                                     Message("Failed to check GPT status: ", is_gpt.err)),
                 asked)
     ELSE IF is_gpt.val
          THEN Record(GptConversionResult(device, TRUE,
                                          Message("Device already uses GPT, skipped", NoErr)),
                      asked)
     ELSE Record(made.record, asked \o made.cmds)

FormatOps == {"format_devices_with_results", "format_devices_safe"}

CollectOps ==
  {"create_partitions_with_results", "change_devices_to_gpt_with_results",
   "change_devices_to_gpt_safe"} \cup FormatOps

\* one turn of the operation on one device
CollectOne(op, filesystem, device, probe, out, labels) ==
  IF op = "create_partitions_with_results" THEN create_partitions_with_results(device, out)
  ELSE IF op = "format_devices_with_results"
       THEN format_devices_with_results(device, filesystem, out)
  ELSE IF op = "format_devices_safe"
       THEN format_devices_safe(device, filesystem, probe, out)
  ELSE IF op = "change_devices_to_gpt_with_results"
       THEN change_devices_to_gpt_with_results(device, out)
  ELSE change_devices_to_gpt_safe(device, probe, out, labels)

\* the devices whose table the commands of a turn rewrote as GPT
Relabelled(cmds) ==
  { cmds[k].device : k \in { j \in 1..Len(cmds) :
        cmds[j].cmd = "parted mklabel" /\ cmds[j].out = "ok" } }

\* the names a caller may hold: the seven types, other spellings of them, and
\* names of no type
FsNames ==
  { S_ext4, S_ext3, S_ext2, S_xfs, S_btrfs, S_ntfs, S_fat32,
    <<"E", "X", "T", "4">>, <<"E", "x", "t", "3">>, <<"X", "F", "S">>, <<"B", "t", "r", "F", "S">>, <<"F", "a", "t", "3", "2">>,
    <<>>, <<"v", "f", "a", "t">>, <<"e", "x", "t", "5">>, <<"e", "x", "t">>, <<"e", "x", "t", "4", " ">>, <<"F", "A", "T", "-", "3", "2">> }

CollectDeviceUniverse == {S_sda, S_sdb, S_sda1, S_bad}

\* a format operation is handed a FilesystemType, which its caller gets from
\* the name by from_str
StartPc(op) == IF op \in FormatOps THEN "from_str" ELSE "loop"

InitCollect ==
  /\ MountIdle
  /\ FilterIdle
  /\ GptIdle
  /\ BatchIdle
  /\ PipeIdle
  /\ UnitIdle
  /\ WritersIdle
  /\ c_op \in CollectOps
  /\ c_fsname \in (IF c_op = "format_devices_with_results" THEN FsNames ELSE {S_ext4})
  /\ c_devices \in SeqsUpTo(CollectDeviceUniverse, MaxDevices)
  /\ c_idx = 1
  /\ c_results = <<>>
  /\ c_cmds = <<>>
  /\ c_pc = StartPc(c_op)
  /\ c_ret = NoRet
  /\ c_labels \in (IF c_op = "change_devices_to_gpt_safe"
                   THEN SUBSET {S_sda, S_sdb} ELSE {{}})
  /\ c_done = <<>>

\* `FilesystemType::from_str(name)?` in the caller
FromStr ==
  /\ c_pc = "from_str"
  /\ IF from_str(c_fsname).ok
     THEN /\ c_pc' = "loop"
          /\ UNCHANGED c_ret
     ELSE /\ c_ret' = from_str(c_fsname)
          /\ c_pc' = "done"
  /\ UNCHANGED <<c_op, c_fsname, c_devices, c_idx, c_results, c_cmds, c_labels, c_done>>
  /\ UNCHANGED notCollectVars

\* one device: the map closure, or one turn of the `for device in devices` loop
CollectStep ==
  /\ c_pc = "loop"
  /\ c_idx <= Len(c_devices)
  /\ \E probe \in CmdOutcomes, out \in CmdOutcomes :
       LET turn == CollectOne(c_op, from_str(c_fsname).val, c_devices[c_idx],
                              probe, out, c_labels)
       IN /\ c_cmds' = c_cmds \o turn.cmds
          /\ c_labels' = c_labels \cup Relabelled(turn.cmds)
          /\ IF turn.raised
             THEN /\ c_ret' = Err(turn.err)
                  /\ c_pc' = "done"
                  /\ UNCHANGED <<c_idx, c_results>>
             ELSE /\ c_results' = Append(c_results, turn.record)
                  /\ c_idx' = c_idx + 1
                  /\ UNCHANGED <<c_pc, c_ret>>
  /\ UNCHANGED <<c_op, c_fsname, c_devices, c_done>>
  /\ UNCHANGED notCollectVars

\* `.collect()`, `Ok(results)`
CollectReturn ==
  /\ c_pc = "loop"
  /\ c_idx > Len(c_devices)
  /\ c_ret' = Ok(c_results)
  /\ c_pc' = "done"
  /\ UNCHANGED <<c_op, c_fsname, c_devices, c_idx, c_results, c_cmds, c_labels, c_done>>
  /\ UNCHANGED notCollectVars

\* whether a run returned its records and every one of them says success
FullySuccessful(r) == r.ok /\ \A k \in 1..Len(r.val) : r.val[k].success

\* the caller runs the operation a second time on the same devices
CollectAgain ==
  /\ c_pc = "done"
  /\ c_done = <<>>
  /\ c_done' = <<[ok |-> c_ret.ok, success |-> FullySuccessful(c_ret),
                  rewrites |-> Cardinality(Relabelled(c_cmds))]>>
  /\ c_idx' = 1
  /\ c_results' = <<>>
  /\ c_cmds' = <<>>
  /\ c_pc' = StartPc(c_op)
  /\ c_ret' = NoRet
  /\ UNCHANGED <<c_op, c_fsname, c_devices, c_labels>>
  /\ UNCHANGED notCollectVars

NextCollect ==
  \/ FromStr
  \/ CollectStep
  \/ CollectReturn
  \/ CollectAgain

SpecCollect == InitCollect /\ [][NextCollect]_vars

\* ======================================================== device_discovery.rs
\* the characters of device names in byte order, for `devices.sort()`
CharOrder == <<"/", "0", "1", "a", "b", "c", "d", "e", "l", "o", "p", "s", "v">>

CharRank(c) == CHOOSE k \in 1..Len(CharOrder) : CharOrder[k] = c

\* a < b as Rust orders strings
RECURSIVE LexLess(_, _)
LexLess(a, b) ==
  IF b = <<>> THEN FALSE
  ELSE IF a = <<>> THEN TRUE
  ELSE IF Head(a) # Head(b) THEN CharRank(Head(a)) < CharRank(Head(b))
  ELSE LexLess(Tail(a), Tail(b))

\* x put at its place in the sorted q
RECURSIVE InsertSorted(_, _)
InsertSorted(x, q) ==
  IF q = <<>> THEN <<x>>
  ELSE IF LexLess(x, Head(q)) THEN <<x>> \o q
  ELSE <<Head(q)>> \o InsertSorted(x, Tail(q))

\* `devices.sort()`
RECURSIVE SortDevices(_)
SortDevices(q) == IF q = <<>> THEN <<>> ELSE InsertSorted(Head(q), SortDevices(Tail(q)))

\* the elements of a set in some order, as read_dir yields them
RECURSIVE SomeOrder(_)
SomeOrder(S) ==
  IF S = {} THEN <<>>
  ELSE LET x == CHOOSE y \in S : TRUE IN <<x>> \o SomeOrder(S \ {x})

N_sd == <<"s", "d">>
N_sda == <<"s", "d", "a">>
N_sdb == <<"s", "d", "b">>
N_loop0 == <<"l", "o", "o", "p", "0">>

\* `name_str.starts_with("sd") && name_str.len() == 3`
IsSataName(name) == StartsWith(name, N_sd) /\ Len(name) = 3

\* /sys/block: whether read_dir works, the entries it yields, and the nodes
\* that exist under /dev
find_devices_via_sysblock(sys) ==
  IF ~sys.readable THEN Err(MkErr("IoError", "read_dir"))
  ELSE LET found == SelectSeq(SomeOrder(sys.names),
                              LAMBDA n : IsSataName(n) /\ (S_dev \o n) \in sys.nodes)
           devs == SortDevices([k \in 1..Len(found) |-> S_dev \o found[k]])
       IN IF devs = <<>> THEN Err(MkErr("NoDevicesFound", "sysblock")) ELSE Ok(devs)

\* an empty list handed back as a result
process_find_output_or_empty(out) ==
  IF ~out.success THEN Err(MkErr("CommandFailed", "find"))
  ELSE IF ~out.utf8 THEN Err(MkErr("InvalidUtf8", "find"))
  ELSE Ok(SortDevices(SelectSeq(out.lines, LAMBDA line : line # <<>>)))

\* the Output of `find /dev -name sd?`
process_find_output(out) ==
  IF ~out.success THEN Err(MkErr("CommandFailed", "find"))
  ELSE IF ~out.utf8 THEN Err(MkErr("InvalidUtf8", "find"))
  ELSE LET devs == SortDevices(SelectSeq(out.lines, LAMBDA line : line # <<>>))
       IN IF devs = <<>> THEN Err(MkErr("NoDevicesFound", "find")) ELSE Ok(devs)

\* `.output()?` then process_find_output
try_find(out) ==
  IF ~out.spawned THEN Err(MkErr("IoError", "find")) ELSE process_find_output(out)

\* `match try_find_without_sudo() { Ok(devices) => Ok(devices), Err(_) => try_find_with_sudo() }`
find_devices_via_find_command(env) ==
  IF try_find(env.find).ok THEN try_find(env.find) ELSE try_find(env.sudo_find)

find_connected_satas(env) ==
  IF ~env.dev_dir THEN Err(MkErr("DevDirectoryNotFound", "/dev"))
  ELSE LET first == find_devices_via_sysblock(env.sysblock)
       IN IF first.ok /\ first.val # <<>> THEN first
          ELSE find_devices_via_find_command(env)

\* ---------------------------------------------------- what discovery meets
SysBlocks ==
  [readable : BOOLEAN, names : SUBSET {N_sda, N_sdb, N_loop0}, nodes : SUBSET {S_sda, S_sdb}]

FindOutputs ==
  { [spawned |-> FALSE, success |-> FALSE, utf8 |-> TRUE, lines |-> <<>>],
    [spawned |-> TRUE, success |-> FALSE, utf8 |-> TRUE, lines |-> <<>>],
    [spawned |-> TRUE, success |-> TRUE, utf8 |-> FALSE, lines |-> <<>>],
    [spawned |-> TRUE, success |-> TRUE, utf8 |-> TRUE, lines |-> <<>>],
    [spawned |-> TRUE, success |-> TRUE, utf8 |-> TRUE, lines |-> <<S_sda>>],
    [spawned |-> TRUE, success |-> TRUE, utf8 |-> TRUE, lines |-> <<S_sdb, S_sda>>] }

DiscoveryEnvs ==
  [dev_dir : BOOLEAN, sysblock : SysBlocks, find : FindOutputs, sudo_find : FindOutputs]

\* ------------------------------------- discovery and the validator on their own
\* longest file handed to the validator, in lines
MaxFileLines == 2

\* what the validator may be handed: entries of six, seven, five and two
\* fields, with spaces, tabs and blanks around them, blank lines and comments
V_six == <<"a", " ", "b", " ", "c", " ", "d", " ", "0", " ", "0">>
V_six_padded == <<" ", " ", "a", "\t", "b", " ", " ", "c", " ", "d", " ", "0", " ", "0", " ">>
V_seven == <<"a", " ", "b", " ", "c", " ", "d", " ", "0", " ", "0", " ", "x">>
V_five == <<"a", " ", "b", " ", "c", " ", "d", " ", "0">>
V_blank == <<" ", " ">>
V_comment == <<"#", " ", "a", " ", "b">>
V_comment_indented == <<" ", "\t", "#", "a">>
V_hash_inside == <<"a", " ", "#">>

ValidatorLines ==
  {V_six, V_six_padded, V_seven, V_five, L_short, <<>>, V_blank, V_comment,
   V_comment_indented, V_hash_inside}

\* ---------------------------------------- lib.rs: mount_devices of the crate root
\* dev.split('/').collect::<Vec<_>>()
RECURSIVE SplitSlash(_, _, _)
SplitSlash(s, cur, acc) ==
  IF s = <<>> THEN Append(acc, cur)
  ELSE IF Head(s) = "/" THEN SplitSlash(Tail(s), <<>>, Append(acc, cur))
  ELSE SplitSlash(Tail(s), Append(cur, Head(s)), acc)

\* `.join("\n".as_bytes())`: the lines with a newline between them
RECURSIVE JoinLines(_)
JoinLines(ls) ==
  IF ls = <<>> THEN <<>>
  ELSE IF Len(ls) = 1 THEN ls[1]
  ELSE ls[1] \o <<"\n">> \o JoinLines(Tail(ls))

\* the bytes of a file of lines
FileBytes(f) == JoinLines(f.lines) \o (IF f.nl THEN <<"\n">> ELSE <<>>)

\* `file.seek(SeekFrom::Start(0)); file.write_all(&save)` on a file opened
\* without truncate: the bytes behind the written ones stay
WriteFromStart(old, new) == new \o SubSeq(old, Len(new) + 1, Len(old))

\* `(find_uuid(dev), format!("/mnt/{}", mount_path))`, find_uuid being the
\* second line blkid prints
LegacyMounts(devs, outs) ==
  [k \in 1..Len(devs) |->
     MountEntry(devs[k], outs[k].stdout[2],
                S_mnt \o <<"/">> \o SplitSlash(devs[k], <<>>, <<>>)[3], S_ext4, S_rw_acl)]

LegacyMkdirOutcomes == {"Ok", "AlreadyExists", "PermissionDenied"}

\* the unwrap, the index, the panic! and the expect that end the call
LegacyPanics(table, devs, outs, made) ==
  \/ ~table.exists
  \/ \E k \in 1..Len(devs) :
       \/ Len(SplitSlash(devs[k], <<>>, <<>>)) < 3
       \/ made[k] = "PermissionDenied"
       \/ outs[k].spawn_failed
       \/ Len(outs[k].stdout) < 2

LegacyDeviceUniverse == {S_sda, S_sda1, S_bad}

LegacyTables ==
  { [exists |-> TRUE, lines |-> ls, nl |-> b] :
      ls \in SeqsUpTo(LineUniverse, MaxFileLines), b \in BOOLEAN }
    \ { [exists |-> TRUE, lines |-> <<>>, nl |-> TRUE] }

UnitFns == {"find_connected_satas", "validate_fstab", "mount_devices"}

InitUnit ==
  /\ MountIdle
  /\ FilterIdle
  /\ GptIdle
  /\ BatchIdle
  /\ PipeIdle
  /\ CollectIdle
  /\ WritersIdle
  /\ \/ /\ u_fn = "find_connected_satas"
        /\ u_in \in DiscoveryEnvs
        /\ u_pc = "dev"
     \/ /\ u_fn = "validate_fstab"
        /\ u_in \in SeqsUpTo(ValidatorLines, MaxFileLines)
        /\ u_pc = "validate"
     \/ /\ u_fn = "mount_devices"
        /\ u_in \in [table : LegacyTables \cup {NoFile},
                     devices : SeqsUpTo(LegacyDeviceUniverse, MaxDevices)]
        /\ u_pc = "mount_devices"
  /\ u_out = NoRet
  /\ u_log = <<>>

\* `if !Path::new("/dev").exists() { return Err(DevDirectoryNotFound) }`
CheckDevDir ==
  /\ u_pc = "dev"
  /\ IF ~u_in.dev_dir
     THEN /\ u_out' = Err(MkErr("DevDirectoryNotFound", "/dev"))
          /\ u_pc' = "done"
     ELSE /\ u_pc' = "sysblock"
          /\ UNCHANGED u_out
  /\ UNCHANGED <<u_fn, u_in, u_log>>
  /\ UNCHANGED notUnitVars

\* `match find_devices_via_sysblock() { Ok(devices) if !devices.is_empty() => .. }`
TrySysblock ==
  /\ u_pc = "sysblock"
  /\ u_log' = Append(u_log, "sysblock")
  /\ LET r == find_devices_via_sysblock(u_in.sysblock)
     IN IF r.ok /\ r.val # <<>>
        THEN /\ u_out' = r
             /\ u_pc' = "done"
        ELSE /\ u_pc' = "find"
             /\ UNCHANGED u_out
  /\ UNCHANGED <<u_fn, u_in>>
  /\ UNCHANGED notUnitVars

\* `match try_find_without_sudo() { Ok(devices) => Ok(devices), Err(_) => .. }`
TryFindWithoutSudo ==
  /\ u_pc = "find"
  /\ u_log' = Append(u_log, "find")
  /\ IF try_find(u_in.find).ok
     THEN /\ u_out' = try_find(u_in.find)
          /\ u_pc' = "done"
     ELSE /\ u_pc' = "sudo_find"
          /\ UNCHANGED u_out
  /\ UNCHANGED <<u_fn, u_in>>
  /\ UNCHANGED notUnitVars

\* `Err(_) => try_find_with_sudo()`
TryFindWithSudo ==
  /\ u_pc = "sudo_find"
  /\ u_log' = Append(u_log, "sudo_find")
  /\ u_out' = try_find(u_in.sudo_find)
  /\ u_pc' = "done"
  /\ UNCHANGED <<u_fn, u_in>>
  /\ UNCHANGED notUnitVars

\* validate_fstab on a file of the lines
ValidateFstab ==
  /\ u_pc = "validate"
  /\ u_out' = validate_fstab(WriteLines(u_in))
  /\ u_pc' = "done"
  /\ UNCHANGED <<u_fn, u_in, u_log>>
  /\ UNCHANGED notUnitVars

\* lib.rs mount_devices: read the lines, make the directories, ask blkid,
\* retain, append, join, write from offset 0
MountDevicesLegacy ==
  /\ u_pc = "mount_devices"
  /\ \E outs \in [1..Len(u_in.devices) ->
                    UNION {BlkidOutputs(d) : d \in LegacyDeviceUniverse}],
        made \in [1..Len(u_in.devices) -> LegacyMkdirOutcomes] :
       /\ \A k \in 1..Len(u_in.devices) : outs[k] \in BlkidOutputs(u_in.devices[k])
       /\ u_out' =
            IF LegacyPanics(u_in.table, u_in.devices, outs, made)
            THEN [returned |-> FALSE, bytes |-> FileBytes(u_in.table)]
            ELSE [returned |-> TRUE,
                  bytes |-> WriteFromStart(
                              FileBytes(u_in.table),
                              JoinLines(BuildLines(u_in.table.lines,
                                                   LegacyMounts(u_in.devices, outs))))]
  /\ u_pc' = "done"
  /\ UNCHANGED <<u_fn, u_in, u_log>>
  /\ UNCHANGED notUnitVars

NextUnit ==
  \/ CheckDevDir
  \/ TrySysblock
  \/ TryFindWithoutSudo
  \/ TryFindWithSudo
  \/ ValidateFstab
  \/ MountDevicesLegacy

SpecUnit == InitUnit /\ [][NextUnit]_vars

\* ------------------------------------------------------------ the orchestrator
\* simple_auto_mount, gpt_auto_mount, smart_auto_mount
SimpleConfig == [SmartDefaultConfig EXCEPT !.skip_gpt = TRUE]
GptForcedConfig == [SmartDefaultConfig EXCEPT !.force_gpt = TRUE]
Presets == {SmartDefaultConfig, SimpleConfig, GptForcedConfig}

\* the capacities and query endings the devices of a run can have
PipelineSizes == { [gb |-> 1999, rem |-> 1073741823], [gb |-> 3000, rem |-> 0] }
PipelineKinds == {"answers", "spawn_failed"}

PipeErr(variant, inner) == [ok |-> FALSE, err |-> [variant |-> variant, inner |-> inner]]
PipeOk == [ok |-> TRUE, err |-> [variant |-> "none", inner |-> NoErr]]

\* a stage that has returned: what it was given and what it gave back
Stage(name, arg, r) == [stage |-> name, arg |-> arg, ok |-> r.ok, val |-> r.val, err |-> r.err]

\* the call of a batch operation
StartBatch(op, devs) ==
  /\ b_op' = op
  /\ b_devices' = devs
  /\ b_idx' = 1
  /\ b_paths' = <<>>
  /\ b_cmds' = <<>>
  /\ b_pc' = "loop"
  /\ b_ret' = NoRet

\* the emptiness test left out
NoDevicesNever(devs) == FALSE

\* `devices.is_empty()`
NoDevices(devs) == devs = <<>>

\* conversion whatever the decision
ConvertsAlways(decision) == TRUE

\* `if should_use_gpt(&devices, &config)? {`
ConvertsWhen(decision) == decision

\* the partition paths dropped, the disks kept
PartitionedDevicesKept(devs, r) == devs

\* `let devices = create_partition(&devices)?;`
PartitionedDevices(devs, r) == r.val

\* a call has returned and its locals are gone
ResetFilter ==
  /\ f_devices' = <<>>
  /\ disks' = {}
  /\ system' = None
  /\ device_infos' = <<>>
  /\ f_pc' = "idle"
  /\ f_ret' = NoRet
  /\ lsblk_outs' = <<>>

ResetBatch ==
  /\ b_op' = "none"
  /\ b_devices' = <<>>
  /\ b_idx' = 1
  /\ b_paths' = <<>>
  /\ b_cmds' = <<>>
  /\ b_pc' = "idle"
  /\ b_ret' = NoRet

\* the run ends here with an error
PipeFails(variant, inner) ==
  /\ p_ret' = PipeErr(variant, inner)
  /\ p_pc' = "done"
  /\ UNCHANGED p_devices

InitPipeline ==
  /\ devices = <<>>
  /\ config = DefaultConfig
  /\ faults = FALSE
  /\ \E t \in Tables \cup {NoFile} :
       files = [p \in Paths |-> IF p = fstab_path THEN t ELSE NoFile]
  /\ synced = {}
  /\ dirs = {}
  /\ pc = "idle"
  /\ idx = 1
  /\ backup_path = None
  /\ mount_entries = <<>>
  /\ results = <<>>
  /\ current_lines = <<>>
  /\ error = NoErr
  /\ ret = NoRet
  /\ log = <<>>
  /\ files0 = files
  /\ dirs0 = dirs
  /\ calls = 1
  /\ prev = NoPrev
  /\ FilterIdle
  /\ GptIdle
  /\ BatchIdle
  /\ p_pc = "discover"
  /\ p_config \in Presets
  /\ p_devices = <<>>
  /\ p_ret = PipeNoRet
  /\ p_log = <<>>
  /\ CollectIdle
  /\ UnitIdle
  /\ WritersIdle

\* `let devices = find_connected_satas()?; if devices.is_empty() { return Err(..) }`
\* and the call of filter_unmounted_hdd_devices(devices)
Discover ==
  /\ p_pc = "discover"
  /\ \E env \in DiscoveryEnvs :
       LET r == find_connected_satas(env)
       IN /\ p_log' = Append(p_log, Stage("discover", <<>>, r))
          /\ IF ~r.ok
             THEN /\ PipeFails("DeviceDiscovery", r.err)
                  /\ UNCHANGED filterVars
             ELSE IF NoDevices(r.val)
             THEN /\ PipeFails("NoDevicesFound", NoErr)
                  /\ UNCHANGED filterVars
             ELSE /\ p_devices' = r.val
                  /\ p_pc' = "filter"
                  /\ UNCHANGED p_ret
                  /\ f_devices' = r.val
                  /\ disks' \in SUBSET MountedUniverse
                  /\ f_pc' = "start"
                  /\ UNCHANGED <<system, device_infos, f_ret, lsblk_outs>>
  /\ UNCHANGED p_config
  /\ UNCHANGED <<mountVars, gptVars, batchVars, collectVars, unitVars, writerVars>>

\* `let devices = filter_unmounted_hdd_devices(devices)?; if devices.is_empty() ..`
\* and the call of should_use_gpt(&devices, &config)
Filtered ==
  /\ p_pc = "filter"
  /\ f_pc = "done"
  /\ p_log' = Append(p_log, Stage("filter", p_devices, f_ret))
  /\ IF ~f_ret.ok
     THEN /\ PipeFails("DeviceFilter", f_ret.err)
          /\ UNCHANGED gptVars
     ELSE IF NoDevices(f_ret.val)
     THEN /\ PipeFails("NoDevicesFound", NoErr)
          /\ UNCHANGED gptVars
     ELSE /\ p_devices' = f_ret.val
          /\ p_pc' = "decide"
          /\ UNCHANGED p_ret
          /\ g_devices' = f_ret.val
          /\ g_config' = p_config
          /\ g_sizes' \in [1..Len(f_ret.val) -> PipelineSizes]
          /\ g_kinds' \in [1..Len(f_ret.val) -> PipelineKinds]
          /\ \A k \in 1..Len(f_ret.val) : g_kinds'[k] # "answers" => g_sizes'[k].gb = 3000
          /\ g_pc' = "start"
          /\ UNCHANGED <<g_ret, g_queries>>
  /\ ResetFilter
  /\ UNCHANGED p_config
  /\ UNCHANGED <<mountVars, batchVars, collectVars, unitVars, writerVars>>

\* `if should_use_gpt(&devices, &config)? { change_devices_to_gpt(&devices)?; }`:
\* the decision is in, and conversion or partitioning is called
Decided ==
  /\ p_pc = "decide"
  /\ g_pc = "done"
  /\ p_log' = Append(p_log, Stage("decide", p_devices, g_ret))
  /\ IF ~g_ret.ok
     THEN /\ PipeFails("Partition", g_ret.err)
          /\ UNCHANGED batchVars
     ELSE /\ StartBatch(IF ConvertsWhen(g_ret.val) THEN "change_devices_to_gpt"
                        ELSE "create_partition", p_devices)
          /\ p_pc' = IF ConvertsWhen(g_ret.val) THEN "convert" ELSE "partition"
          /\ UNCHANGED <<p_devices, p_ret>>
  /\ g_pc' = "idle"
  /\ UNCHANGED <<g_devices, g_config, g_sizes, g_kinds, g_ret, g_queries>>
  /\ UNCHANGED p_config
  /\ UNCHANGED <<mountVars, filterVars, collectVars, unitVars, writerVars>>

\* `change_devices_to_gpt(&devices)?;` has returned; `create_partition(&devices)`
Converted ==
  /\ p_pc = "convert"
  /\ b_pc = "done"
  /\ p_log' = Append(p_log, Stage("convert", p_devices, b_ret))
  /\ IF ~b_ret.ok
     THEN /\ PipeFails("Partition", b_ret.err)
          /\ ResetBatch
     ELSE /\ StartBatch("create_partition", p_devices)
          /\ p_pc' = "partition"
          /\ UNCHANGED <<p_devices, p_ret>>
  /\ UNCHANGED p_config
  /\ UNCHANGED <<mountVars, filterVars, gptVars, collectVars, unitVars, writerVars>>

\* `let devices = create_partition(&devices)?;` and `format_devices(&devices)`
Partitioned ==
  /\ p_pc = "partition"
  /\ b_pc = "done"
  /\ p_log' = Append(p_log, Stage("partition", p_devices, b_ret))
  /\ IF ~b_ret.ok
     THEN /\ PipeFails("Partition", b_ret.err)
          /\ ResetBatch
     ELSE /\ StartBatch("format_devices", PartitionedDevices(p_devices, b_ret))
          /\ p_devices' = PartitionedDevices(p_devices, b_ret)
          /\ p_pc' = "format"
          /\ UNCHANGED p_ret
  /\ UNCHANGED p_config
  /\ UNCHANGED <<mountVars, filterVars, gptVars, collectVars, unitVars, writerVars>>

\* `format_devices(&devices)?;` has returned; `mount_devices(&devices)` is called
Formatted ==
  /\ p_pc = "format"
  /\ b_pc = "done"
  /\ p_log' = Append(p_log, Stage("format", p_devices, b_ret))
  /\ IF ~b_ret.ok
     THEN /\ PipeFails("Filesystem", b_ret.err)
          /\ UNCHANGED <<devices, pc>>
     ELSE /\ devices' = p_devices
          /\ pc' = "backup"
          /\ p_pc' = "register"
          /\ UNCHANGED <<p_devices, p_ret>>
  /\ ResetBatch
  /\ UNCHANGED p_config
  /\ UNCHANGED <<config, faults, files, synced, dirs, idx, backup_path, mount_entries,
                 results, current_lines, error, ret, log, files0, dirs0, calls, prev>>
  /\ UNCHANGED <<filterVars, gptVars, collectVars, unitVars, writerVars>>

\* `mount_devices(&devices);` has returned, its value dropped; `Ok(())`
Registered ==
  /\ p_pc = "register"
  /\ pc = "done"
  /\ p_log' = Append(p_log, Stage("register", p_devices, ret))
  /\ p_ret' = PipeOk
  /\ p_pc' = "done"
  /\ UNCHANGED <<p_config, p_devices>>
  /\ UNCHANGED <<mountVars, filterVars, gptVars, batchVars, collectVars, unitVars, writerVars>>

NextPipeline ==
  \/ Discover
  \/ Filtered
  \/ Decided
  \/ Converted
  \/ Partitioned
  \/ Formatted
  \/ Registered
  \/ NextFilter
  \/ NextGpt
  \/ NextBatch
  \/ Next

SpecPipeline == InitPipeline /\ [][NextPipeline]_vars

\* -------------------------------------------------------- runs that end
\* a direct call of mount_devices_with_config, or a run of the pipeline
InitTerminates == Init \/ InitPipeline

\* the steps of a run but the call of should_use_gpt
StepsOfRun ==
  \/ Discover
  \/ Filtered
  \/ Decided
  \/ Converted
  \/ Partitioned
  \/ Formatted
  \/ Registered
  \/ NextFilter
  \/ NextBatch
  \/ Next

\* should_use_gpt returns a Result<bool>: the step ShouldUseGpt, whatever
\* its blockdev queries answer
GptReturns ==
  /\ g_pc = "start"
  /\ g_pc' = "done"
  /\ g_ret' \in {Ok(TRUE), Ok(FALSE)}
  /\ g_queries' \in 0..Len(g_devices)
  /\ UNCHANGED <<g_devices, g_config, g_sizes, g_kinds>>
  /\ UNCHANGED notGptVars

\* one sequence of blocking calls: every command that is started returns, so
\* a run that can take its next step takes it
SpecTerminates ==
  InitTerminates /\ [][NextPipeline]_vars /\ WF_vars(StepsOfRun) /\ WF_vars(GptReturns)

\* =================================================================== claims
Returned == pc = "done"
Table == files[fstab_path]
Table0 == files0[fstab_path]
Last(q) == q[Len(q)]
Did(op) == \E k \in 1..Len(log) : log[k].op = op
DidWith(op, res) == \E k \in 1..Len(log) : log[k] = Logged(op, res)
\* the backup step is behind: it was disabled, or it succeeded
BackupPassed == pc # "backup" /\ (config.backup_fstab => DidWith("backup", "ok"))
\* the call returned an error of update_fstab_safe or apply_mounts
FailedAfterPrepare == Returned /\ ~ret.ok /\ error # NoErr
RestoreFailed == DidWith("restore", "IoError") \/ DidWith("restore", "IoErrorPartial")

IsShortLine(line) ==
  /\ Trim(line) # <<>>
  /\ Head(Trim(line)) # "#"
  /\ Len(SplitWhitespace(line)) < 6

\* the temporary file was written in full and one of its lines is short
TempHasShortLine ==
  /\ config.validate_before_write
  /\ DidWith("write", "ok")
  /\ \E k \in 1..Len(current_lines) : IsShortLine(current_lines[k])

\* C2: with validation on, a temporary table with a line of fewer than 6
\* fields makes the call fail with ValidationFailed, no rename is performed
\* and the mount table is the same after the call as before.  The error arm
\* copies the backup over the table the rename never touched, and a copy that
\* fails partway leaves the table truncated.
C2_ValidationLeavesTable ==
  (Returned /\ TempHasShortLine) =>
    /\ ~ret.ok
    /\ ret.err.kind = "ValidationFailed"
    /\ ~Did("rename")
    /\ Table = Table0

\* C4: when the prepare step ends with no entry (every device failed, or the
\* list is empty) the call returns Ok(results), one result per device, it
\* performs no rewrite, no apply and no restore, and the mount table and the
\* temporary file are untouched.
C4_NothingPreparedNothingWritten ==
  (Returned /\ BackupPassed /\ \A k \in 1..Len(results) : ~results[k].success) =>
    /\ ret = Ok(results)
    /\ Len(results) = Len(devices)
    /\ \A op \in {"read", "write", "validate", "rename", "apply", "restore"} : ~Did(op)
    /\ Table = Table0
    /\ files[temp_path] = files0[temp_path]

C4_Witness ==
  /\ Returned
  /\ BackupPassed
  /\ Len(devices) = 2
  /\ ret = Ok(results)
  /\ \A k \in 1..Len(results) : ~results[k].success
  /\ Table.exists /\ Table.lines # <<>>

\* C6: with backup enabled, a failed backup step (copy error, or BackupFailed
\* when the lengths differ) ends the call with that error before any
\* mutation: no directory created, table unchanged, nothing else invoked.
C6_BackupFailureStopsCall ==
  (Returned /\ config.backup_fstab /\ ~DidWith("backup", "ok")) =>
    /\ ~ret.ok
    /\ ret.err.at = "backup"
    /\ ret.err.kind \in {"IoError", "BackupFailed"}
    /\ (/\ files[backup_file_path].exists
        /\ FileSize(files[backup_file_path]) # FileSize(Table0)) =>
         ret.err.kind = "BackupFailed"
    /\ Len(log) = 1
    /\ results = <<>>
    /\ dirs = dirs0
    /\ Table = Table0

C6_Witness ==
  /\ Returned
  /\ config.backup_fstab
  /\ ret.err.kind = "BackupFailed"
  /\ devices # <<>>

\* C7: when the rewrite or the apply step fails and the restore fails too, the
\* call returns the error of the rewrite or apply step, not the restore's.
C7_RestoreFailureNotMasking ==
  (Returned /\ RestoreFailed) =>
    /\ ~ret.ok
    /\ ret.err = error
    /\ ret.err.at # "restore"
    /\ Len(log) >= 2
    /\ log[Len(log) - 1].op \in {"read", "write", "validate", "rename", "apply"}
    /\ log[Len(log) - 1].res = ret.err.kind

C7_Witness ==
  /\ Returned
  /\ RestoreFailed
  /\ DidWith("apply", "CommandFailed")
  /\ ret.err.kind = "CommandFailed"

\* the number of table lines that are the entry of a mount point: the lines
\* whose second field is the mount point
RECURSIVE EntriesFor(_, _)
EntriesFor(lines, mount_point) ==
  IF lines = <<>> THEN 0
  ELSE (IF /\ Len(SplitWhitespace(Head(lines))) >= 2
           /\ SplitWhitespace(Head(lines))[2] = mount_point
        THEN 1 ELSE 0) + EntriesFor(Tail(lines), mount_point)

RECURSIVE Occurrences(_, _)
Occurrences(q, x) ==
  IF q = <<>> THEN 0
  ELSE (IF Head(q) = x THEN 1 ELSE 0) + Occurrences(Tail(q), x)

\* C3: two successive successful calls that register the same devices with
\* the same MountConfig leave, for every device the list names once, exactly
\* one entry for its mount point, and the second call leaves the table as
\* the first call left it.
C3_ReRegistrationIdempotent ==
  (Returned /\ ret.ok /\ prev.valid /\ prev.ret.ok
     /\ mount_entries # <<>> /\ prev.entries = mount_entries) =>
    /\ Table = prev.table
    /\ \A k \in 1..Len(mount_entries) :
         Occurrences(devices, mount_entries[k].device) = 1 =>
           EntriesFor(Table.lines, mount_entries[k].mount_point) = 1

C3_Witness ==
  /\ Returned /\ ret.ok /\ prev.valid /\ prev.ret.ok
  /\ calls = 2
  /\ mount_entries # <<>> /\ prev.entries = mount_entries
  /\ EntriesFor(Table.lines, mount_entries[1].mount_point) = 1
  /\ Len(Table.lines) = 2

RewriteSteps == {"read", "write", "validate", "rename"}

\* C5: while the rewrite step runs, the mount table changes only in the rename,
\* and then to the content of the temporary file, which is the complete new
\* content, synced, and validated when validation is on; a rewrite step that
\* fails leaves the table holding its pre-call content.
RewriteStepKeepsTable ==
  pc \in RewriteSteps =>
    /\ (files'[fstab_path] # files[fstab_path]) =>
         /\ pc = "rename" /\ pc' = "apply"
         /\ files'[fstab_path] = files[temp_path]
         /\ files[temp_path] = WriteLines(current_lines)
         /\ temp_path \in synced
         /\ config.validate_before_write => Last(log) = Logged("validate", "ok")
    /\ pc' = "failed" => files'[fstab_path] = files0[fstab_path]

C5_TableReplacedOnlyByRename == [][RewriteStepKeepsTable]_vars

\* the write stopped early: a partial temporary file, the table as it was
C5_Witness ==
  /\ pc = "failed"
  /\ Last(log) = Logged("write", "IoError")
  /\ files[temp_path].exists
  /\ files[temp_path] # WriteLines(current_lines)
  /\ Table = Table0
  /\ Table.lines # <<>>

PrepareLog == SelectSeq(log, LAMBDA l : l.op = "prepare")

\* the devices of the successful results, in order
RECURSIVE SucceededDevices(_)
SucceededDevices(rs) ==
  IF rs = <<>> THEN <<>>
  ELSE (IF Head(rs).success THEN <<Head(rs).device>> ELSE <<>>)
         \o SucceededDevices(Tail(rs))

\* C8: in the prepare step every device handled so far has exactly one result,
\* in input order; a device whose preparation failed (bad prefix, UUID query
\* failure, UuidNotFound, mount-point creation failure) has a failed result
\* and no entry; the devices after it are still prepared.
C8_PrepareCollectsPerDevice ==
  BackupPassed =>
    /\ Len(results) = Len(PrepareLog)
    /\ pc = "prepare" => Len(results) = idx - 1
    /\ pc # "prepare" => Len(results) = Len(devices)
    /\ \A k \in 1..Len(results) :
         /\ results[k].device = devices[k]
         /\ results[k].success <=> PrepareLog[k].res = "ok"
         /\ ~StartsWith(devices[k], S_dev) =>
              /\ ~results[k].success
              /\ results[k].error_message = Some("InvalidDevice")
         /\ ~results[k].success =>
              /\ results[k].mount_point = <<>>
              /\ results[k].error_message \in
                   { Some(e) : e \in {"InvalidDevice", "CommandFailed", "UuidNotFound",
                                      "MountPointCreationFailed", "IoError"} }
         /\ results[k].success =>
              /\ results[k].error_message = None
              /\ results[k].mount_point = MountPointOf(devices[k], config)
    /\ [k \in 1..Len(mount_entries) |-> mount_entries[k].device] = SucceededDevices(results)

\* the first device failed, the second was prepared all the same
C8_Witness ==
  /\ BackupPassed
  /\ pc = "read"
  /\ Len(results) = 2
  /\ ~results[1].success
  /\ results[2].success
  /\ Len(mount_entries) = 1

\* the place of an operation in the order backup, prepare, rewrite, apply,
\* restore
Rank(op) ==
  CASE op = "backup" -> 1
    [] op = "prepare" -> 2
    [] op = "read" -> 3
    [] op = "write" -> 4
    [] op = "validate" -> 5
    [] op = "rename" -> 6
    [] op = "apply" -> 7
    [] op = "restore" -> 8

\* the order Init, BackedUp, EntriesPrepared, TableRewritten, Mounted: the
\* operations of a call come in that order, each after the success of the one
\* before; apply follows a successful rename; an enabled backup comes first
InStateOrder ==
  /\ \A k \in 1..(Len(log) - 1) :
       /\ Rank(log[k].op) <= Rank(log[k + 1].op)
       /\ Rank(log[k].op) = Rank(log[k + 1].op) => log[k].op = "prepare"
       /\ (log[k].res # "ok" /\ log[k].op # "prepare") => log[k + 1].op = "restore"
  /\ \A k \in 1..Len(log) :
       log[k].op = "apply" => (k > 1 /\ log[k - 1] = Logged("rename", "ok"))
  /\ (config.backup_fstab /\ Len(log) > 0) => log[1].op = "backup"
  /\ (config.backup_fstab /\ Len(log) > 1) => log[1] = Logged("backup", "ok")
  /\ (Returned /\ ret.ok /\ results # <<>> /\ \E k \in 1..Len(results) : results[k].success)
       => Last(log) = Logged("apply", "ok")

\* C9 as claimed: the state order holds, and every call that fails after Init
\* (in the rewrite or the apply step) passes through the restore first.
C9_OrderAndAlwaysRollback ==
  /\ InStateOrder
  /\ FailedAfterPrepare => Last(log).op = "restore"

\* C9 amended: ... passes through the restore first when a backup was taken;
\* with backup disabled it fails with no restore.
C9_OrderAndRollbackWithBackup ==
  /\ InStateOrder
  /\ FailedAfterPrepare => (backup_path # None <=> Last(log).op = "restore")
  /\ Did("restore") => (log[1] = Logged("backup", "ok") /\ Returned /\ ~ret.ok)

C9_Witness ==
  /\ FailedAfterPrepare
  /\ DidWith("backup", "ok")
  /\ DidWith("rename", "ok")
  /\ Last(log).op = "restore"
  /\ Len(log) = 8

\* the elements of q at the positions in I, in order
RECURSIVE PickFrom(_, _, _)
PickFrom(q, I, k) ==
  IF k > Len(q) THEN <<>>
  ELSE (IF k \in I THEN <<q[k]>> ELSE <<>>) \o PickFrom(q, I, k + 1)

\* the positions of the devices lsblk reported rotational ("1") and no mounted
\* source name contains
UnmountedHddPositions ==
  { k \in 1..Len(f_devices) :
      /\ k <= Len(lsblk_outs)
      /\ lsblk_outs[k].spawned /\ lsblk_outs[k].success
      /\ Len(lsblk_outs[k].stdout) >= 2
      /\ Trim(lsblk_outs[k].stdout[2]) = <<"1">>
      /\ \A name \in disks : ~Contains(name, f_devices[k]) }

ProbeFails(out) == ~out.spawned \/ ~out.success \/ Len(out.stdout) < 2

ProbeErrorKind(out) ==
  IF ~out.spawned THEN "IoError"
  ELSE IF ~out.success THEN "CommandFailed"
  ELSE "InvalidOutputFormat"

\* C11: when the probe of a device fails, the filter call returns that
\* probe's error (CommandFailed for a non-zero exit, InvalidOutputFormat for
\* fewer than two lines) and no list, at whatever position the device stands
\* and however many devices were probed before it; no device after it is
\* probed; and a call that returns a list had no failing probe.
C11_ProbeFailureAbortsFilter ==
  f_pc = "done" =>
    /\ \A k \in 1..Len(lsblk_outs) :
         ProbeFails(lsblk_outs[k]) =>
           /\ ~f_ret.ok
           /\ f_ret.val = <<>>
           /\ f_ret.err.kind = ProbeErrorKind(lsblk_outs[k])
           /\ k = Len(lsblk_outs)
           /\ Len(device_infos) = k - 1
    /\ f_ret.ok => /\ Len(lsblk_outs) = Len(f_devices)
                   /\ \A k \in 1..Len(lsblk_outs) : ~ProbeFails(lsblk_outs[k])

\* the second device's probe answers one line after the first device's probe
\* went well
C11_Witness ==
  /\ f_pc = "done" /\ ~f_ret.ok
  /\ f_ret.err.kind = "InvalidOutputFormat"
  /\ Len(f_devices) = 2
  /\ Len(lsblk_outs) = 2
  /\ ~ProbeFails(lsblk_outs[1])
  /\ Len(device_infos) = 1

\* C12: a device is reported mounted exactly when the name of some live
\* mounted source contains its path, and no such device is in the filter's
\* output: /dev/sda with /dev/sda1 mounted is never returned.
C12_MountedBySubstringNeverReturned ==
  /\ \A k \in 1..Len(device_infos) :
       device_infos[k].is_mounted <=>
         \E name \in disks : Contains(name, device_infos[k].path)
  /\ (f_pc = "done" /\ f_ret.ok) =>
       \A k \in 1..Len(f_ret.val) :
         \A name \in disks : ~Contains(name, f_ret.val[k])

\* /dev/sda is rotational, only its partition /dev/sda1 is mounted, and the
\* filter drops it
C12_Witness ==
  /\ f_pc = "done" /\ f_ret.ok
  /\ f_devices = <<S_sda>>
  /\ disks = {S_sda1}
  /\ Trim(lsblk_outs[1].stdout[2]) = <<"1">>
  /\ f_ret.val = <<>>

\* ------------------------------------------------------------ the strategist
GptReturned == g_pc = "done"
GptByThreshold == ~g_config.skip_gpt /\ ~g_config.force_gpt
Answered(k) == g_kinds[k] = "answers"

\* C13: skip_gpt = true gives Ok(false) for every device list, force_gpt and
\* threshold; otherwise force_gpt = true gives Ok(true); in both cases no
\* capacity query is made.
C13_SkipThenForce ==
  GptReturned =>
    /\ g_config.skip_gpt => (g_ret = Ok(FALSE) /\ g_queries = 0)
    /\ (~g_config.skip_gpt /\ g_config.force_gpt) => (g_ret = Ok(TRUE) /\ g_queries = 0)

\* both flags set, threshold 0 and a 3000 GB device: the answer is false
C13_Witness ==
  /\ GptReturned
  /\ g_config.skip_gpt /\ g_config.force_gpt /\ g_config.gpt_threshold_gb = 0
  /\ Len(g_devices) = 1 /\ Answered(1) /\ g_sizes[1].gb = 3000
  /\ g_ret = Ok(FALSE)

\* C14: without the flags, a device whose capacity query answers a byte
\* count of floor(size_bytes / 2^30) >= gpt_threshold_gb makes the decision
\* true, and when every device's query answers, the decision is true if and
\* only if there is such a device (a capacity is gb * 2^30 + rem bytes with
\* rem < 2^30, so gb is that floor).  With the default 2000: 3000 GB gives
\* true, devices all below 2000 GB give false.
C14_ThresholdRule ==
  (GptReturned /\ GptByThreshold) =>
    /\ g_ret.ok
    /\ (\E k \in 1..Len(g_devices) :
          Answered(k) /\ g_sizes[k].gb >= g_config.gpt_threshold_gb) => g_ret.val = TRUE
    /\ (\A k \in 1..Len(g_devices) : Answered(k)) =>
         (g_ret.val = TRUE <=>
            \E k \in 1..Len(g_devices) : g_sizes[k].gb >= g_config.gpt_threshold_gb)

\* default threshold, a device one byte short of 2000 GB, then one of 2000 GB
C14_Witness ==
  /\ GptReturned /\ GptByThreshold
  /\ g_config.gpt_threshold_gb = gpt_threshold_default
  /\ Len(g_devices) = 2 /\ Answered(1) /\ Answered(2)
  /\ g_sizes[1] = [gb |-> 1999, rem |-> 1073741823]
  /\ g_sizes[2] = [gb |-> 2000, rem |-> 0]
  /\ g_ret = Ok(TRUE)
  /\ g_queries = 2

\* the decision for the same devices, answers and flags with another threshold
DecisionAt(t) ==
  should_use_gpt(g_devices, [g_config EXCEPT !.gpt_threshold_gb = t],
                 GptOuts(g_kinds, g_sizes)).val

\* C15: for fixed devices, sizes and flags and thresholds t1 <= t2, a true
\* decision with t2 is a true decision with t1; in particular the returned
\* decision, when true, stays true for every lower threshold.
C15_MonotonicInThreshold ==
  GptReturned =>
    /\ \A t1 \in ThresholdUniverse :
         (t1 <= g_config.gpt_threshold_gb /\ g_ret.val = TRUE) => DecisionAt(t1) = TRUE
    /\ \A t1 \in ThresholdUniverse : \A t2 \in ThresholdUniverse :
         (t1 <= t2 /\ DecisionAt(t2) = TRUE) => DecisionAt(t1) = TRUE

\* false at the default threshold, true once the threshold is lowered to 1
C15_Witness ==
  /\ GptReturned /\ GptByThreshold
  /\ g_config.gpt_threshold_gb = gpt_threshold_default
  /\ g_ret = Ok(FALSE)
  /\ DecisionAt(1) = TRUE
  /\ g_queries = Len(g_devices)

\* the answers with every failed query replaced by the answer "0"
OutsFailedAsZero ==
  [k \in 1..Len(g_devices) |->
     IF Answered(k) THEN BlockdevOutput(g_kinds[k], g_sizes[k])
     ELSE BlockdevOutput("answers", [gb |-> 0, rem |-> 0])]

\* C16: a capacity query that fails (the command cannot be run, exits
\* non-zero, or prints something unparsable) never makes the decision fail,
\* and the decision equals the one obtained when that device's size is
\* exactly 0 bytes, for every threshold, 0 included.
C16_FailedQueryIsSizeZero ==
  GptReturned =>
    /\ g_ret.ok
    /\ g_ret = should_use_gpt(g_devices, g_config, OutsFailedAsZero)

\* ------------------------------------------------- the fail-fast batch operations
\* C20: create_partition and format_devices take the devices one at a time
\* in input order and stop at the first device that fails, returning its
\* error: every command run is on the device at its position, only the last
\* command run can have failed, and no command is run on a device after the
\* failing one; on success every device had its command, and create_partition
\* returns one path per device, the device path followed by "1", in input
\* order.
C20_BatchFailFast ==
  (b_pc = "done" /\ b_op \in {"create_partition", "format_devices"}) =>
    /\ \A k \in 1..Len(b_cmds) : b_cmds[k].device = b_devices[k]
    /\ \A k \in 1..(Len(b_cmds) - 1) : b_cmds[k].out = "ok"
    /\ ~b_ret.ok =>
         /\ b_idx <= Len(b_devices)
         /\ b_ret.err.detail = b_devices[b_idx]
         /\ b_ret.val = <<>>
         /\ IF RunsCommand(b_op, b_devices[b_idx])
            THEN Len(b_cmds) = b_idx /\ b_cmds[b_idx].out # "ok"
            ELSE Len(b_cmds) = b_idx - 1
    /\ b_ret.ok =>
         /\ Len(b_cmds) = Len(b_devices)
         /\ \A k \in 1..Len(b_cmds) : b_cmds[k].out = "ok"
         /\ b_op = "create_partition" =>
              b_ret.val = [k \in 1..Len(b_devices) |-> b_devices[k] \o <<"1">>]

\* create_partition on /dev/sda and /dev/sdb: parted fails on the second
\* after the first went well
C20_Witness ==
  /\ b_pc = "done" /\ b_op = "create_partition"
  /\ b_devices = <<S_sda, S_sdb>>
  /\ ~b_ret.ok /\ b_ret.err.kind = "CommandFailed"
  /\ b_paths = <<S_sda1>>
  /\ Len(b_cmds) = 2

\* ------------------------------------------------------------ the orchestrator
PipeReturned == p_pc = "done"

\* the entry of a stage in the log, if the stage has returned
HasStage(name) == \E k \in 1..Len(p_log) : p_log[k].stage = name
StageOf(name) == p_log[CHOOSE k \in 1..Len(p_log) : p_log[k].stage = name]

\* the stage has been called, and maybe has returned
Invoked(name) == HasStage(name) \/ p_pc = name

\* discovery found no device, or the filter kept none
DiscoveryYieldsNone ==
  /\ HasStage("discover")
  /\ \/ (~StageOf("discover").ok /\ StageOf("discover").err.kind = "NoDevicesFound")
     \/ (StageOf("discover").ok /\ StageOf("discover").val = <<>>)

FilterYieldsNone ==
  HasStage("filter") /\ StageOf("filter").ok /\ StageOf("filter").val = <<>>

\* SmartMountError::NoDevicesFound, or DeviceDiscoveryError::NoDevicesFound
\* carried by SmartMountError::DeviceDiscovery
IsNoDevicesFound(e) ==
  \/ e.variant = "NoDevicesFound"
  \/ (e.variant = "DeviceDiscovery" /\ e.inner.kind = "NoDevicesFound")

\* the mount table and every other file are as they were when the run began,
\* and the mount registrar has not been called
TableUntouched == files = files0 /\ pc = "idle" /\ log = <<>> /\ dirs = dirs0

\* C17: when discovery yields no devices or the filter yields an empty list,
\* the run has ended with a no-devices-found error: no decision, GPT
\* conversion, partitioning, formatting or mount registration is called, no
\* command of theirs is run and the mount table is untouched.
C17_NoDevicesStopsRun ==
  (DiscoveryYieldsNone \/ FilterYieldsNone) =>
    /\ PipeReturned
    /\ ~p_ret.ok
    /\ IsNoDevicesFound(p_ret.err)
    /\ \A name \in {"decide", "convert", "partition", "format", "register"} : ~Invoked(name)
    /\ b_pc = "idle" /\ b_cmds = <<>>
    /\ g_pc = "idle" /\ g_queries = 0
    /\ TableUntouched

\* two devices discovered, none kept by the filter
C17_Witness ==
  /\ PipeReturned
  /\ FilterYieldsNone
  /\ Len(StageOf("filter").arg) = 2
  /\ p_ret.err.variant = "NoDevicesFound"
  /\ Table.exists

\* the place of a stage in the run
StageRank(name) ==
  IF name = "discover" THEN 1
  ELSE IF name = "filter" THEN 2
  ELSE IF name = "decide" THEN 3
  ELSE IF name = "convert" THEN 4
  ELSE IF name = "partition" THEN 5
  ELSE IF name = "format" THEN 6
  ELSE 7

\* the stage that follows a stage that went well
FollowsInRun(a, b) ==
  IF a.stage = "discover" THEN b.stage = "filter" /\ b.arg = a.val
  ELSE IF a.stage = "filter" THEN b.stage = "decide" /\ b.arg = a.val
  ELSE IF a.stage = "decide"
    THEN b.stage = (IF a.val THEN "convert" ELSE "partition") /\ b.arg = a.arg
  ELSE IF a.stage = "convert" THEN b.stage = "partition" /\ b.arg = a.arg
  ELSE IF a.stage = "partition" THEN b.stage = "format" /\ b.arg = a.val
  ELSE IF a.stage = "format" THEN b.stage = "register" /\ b.arg = a.arg
  ELSE FALSE

\* C18: the stages run in the order discover, filter, decide GPT, convert
\* (only after a true decision), partition, format, register, each one given
\* what the stages before it produced (the filtered devices to the decision,
\* the conversion and the partitioning, the partition paths to formatting
\* and registration); a stage before registration that fails is the last
\* stage called, the run ends with that stage's error, and as long as
\* registration has not been called the mount table file is unchanged.
C18_StagesInOrderFailStop ==
  /\ p_log # <<>> => p_log[1].stage = "discover"
  /\ \A k \in 1..(Len(p_log) - 1) :
       /\ StageRank(p_log[k].stage) < StageRank(p_log[k + 1].stage)
       /\ p_log[k].ok
       /\ FollowsInRun(p_log[k], p_log[k + 1])
  /\ (p_pc \notin {"idle", "discover", "done"} /\ p_log # <<>>) =>
       StageRank(p_log[Len(p_log)].stage) < StageRank(p_pc)
  /\ \A k \in 1..Len(p_log) :
       (~p_log[k].ok /\ p_log[k].stage # "register") =>
         /\ k = Len(p_log)
         /\ PipeReturned
         /\ ~p_ret.ok
         /\ p_ret.err.inner = p_log[k].err
         /\ TableUntouched
  /\ ~Invoked("register") => TableUntouched

\* conversion and partitioning went well and formatting fails on the
\* partition of the second disk
C18_Witness ==
  /\ PipeReturned
  /\ Len(p_log) = 6
  /\ p_log[4].stage = "convert"
  /\ p_log[5].val = <<S_sda1, S_sdb \o <<"1">>>>
  /\ p_log[6].stage = "format" /\ ~p_log[6].ok
  /\ p_log[6].err.detail = S_sdb \o <<"1">>
  /\ p_ret.err.variant = "Filesystem"
  /\ Table.exists

\* the threshold rule with the default 2000 GB on the devices of the decision
ThresholdRuleHolds ==
  \E k \in 1..Len(g_devices) : g_kinds[k] = "answers" /\ g_sizes[k].gb >= 2000

\* the conversion has been run on every device given to it, in order
ConvertedAll(devs) ==
  /\ b_op = "change_devices_to_gpt"
  /\ b_cmds = [k \in 1..Len(devs) |-> [device |-> devs[k], out |-> "ok"]]

\* C19: with the simple preset (skip_gpt) GPT conversion is never called on
\* any device; with the gpt-forced preset (force_gpt) the decision is true
\* without any capacity query, conversion is called on the filtered devices
\* and partitioning is not called before it has converted every one of them;
\* with the smart preset conversion is called if and only if some device
\* reaches the default threshold of 2000 GB.
C19_PresetsFixConversion ==
  /\ p_config.skip_gpt =>
       /\ ~Invoked("convert")
       /\ b_op # "change_devices_to_gpt"
  /\ p_config.force_gpt =>
       /\ HasStage("decide") =>
            /\ StageOf("decide").val = TRUE
            /\ g_queries = 0
            /\ Invoked("convert")
       /\ HasStage("convert") => StageOf("convert").arg = StageOf("filter").val
       /\ (p_pc = "convert" /\ b_pc = "done" /\ b_ret.ok) => ConvertedAll(p_devices)
       /\ Invoked("partition") => HasStage("convert") /\ StageOf("convert").ok
  /\ (~p_config.skip_gpt /\ ~p_config.force_gpt) =>
       /\ p_config.gpt_threshold_gb = 2000
       /\ HasStage("decide") => (Invoked("convert") <=> ThresholdRuleHolds)

\* the gpt-forced preset on two disks below 2000 GB: both converted, and
\* partitioning called after that
C19_Witness ==
  /\ p_config.force_gpt
  /\ p_pc = "partition"
  /\ HasStage("convert") /\ StageOf("convert").ok
  /\ StageOf("convert").arg = <<S_sda, S_sdb>>
  /\ \A k \in 1..2 : g_kinds[k] = "answers" /\ g_sizes[k].gb = 1999

\* --------------------------------------------------- the collecting variants
CollectReturned == c_pc = "done"

\* the device a record is about
DeviceOfRecord(r) ==
  IF c_op = "create_partitions_with_results" THEN r.original_device ELSE r.device

\* C21: every collect-results variant (create_partitions_with_results,
\* format_devices_with_results, format_devices_safe,
\* change_devices_to_gpt_with_results, change_devices_to_gpt_safe), handed a
\* filesystem type where it takes one, returns without an error one record per
\* input device, in input order, whatever happens on any device.
C21_CollectNeverRaises ==
  (CollectReturned /\ from_str(c_fsname).ok) =>
    /\ c_ret.ok
    /\ Len(c_ret.val) = Len(c_devices)
    /\ \A k \in 1..Len(c_devices) : DeviceOfRecord(c_ret.val[k]) = c_devices[k]

\* two characters that are the same letter in either case
SameLetter(x, y) ==
  x = y \/ \E k \in 1..Len(Uppers) : {x, y} = {Uppers[k], Lowers[k]}

EqIgnoreCase(a, b) ==
  Len(a) = Len(b) /\ \A k \in 1..Len(a) : SameLetter(a[k], b[k])

SupportedNames == {S_ext4, S_ext3, S_ext2, S_xfs, S_btrfs, S_ntfs, S_fat32}

IsSupportedName(s) == \E n \in SupportedNames : EqIgnoreCase(s, n)

\* C22: a filesystem-type string is accepted exactly when it is, letter case
\* aside, one of ext4, ext3, ext2, xfs, btrfs, ntfs, fat32; any other string
\* fails with UnsupportedFilesystem and no command has been run on any device.
C22_UnsupportedNameRejectedFirst ==
  (c_op = "format_devices_with_results" /\ c_pc # "from_str") =>
    /\ IsSupportedName(c_fsname) <=> (c_pc = "loop" \/ c_ret.ok)
    /\ ~IsSupportedName(c_fsname) =>
         /\ CollectReturned
         /\ ~c_ret.ok
         /\ c_ret.err.kind = "UnsupportedFilesystem"
         /\ c_cmds = <<>>

C22_Witness ==
  /\ c_op = "format_devices_with_results"
  /\ CollectReturned
  /\ ~IsSupportedName(c_fsname)
  /\ c_fsname # <<>>
  /\ Len(c_devices) = 2
  /\ ~c_ret.ok

\* a rewrite comes right after a check of the same device that answered
\* "not GPT"
RewritesFollowChecks(cmds) ==
  \A k \in 1..Len(cmds) :
    cmds[k].cmd = "parted mklabel" =>
      /\ k > 1
      /\ cmds[k - 1].cmd = "parted print"
      /\ cmds[k - 1].device = cmds[k].device
      /\ cmds[k - 1].out = "ok"
      /\ ~cmds[k - 1].gpt

\* no rewrite on a device whose check reported GPT
NoRewriteAfterGptReport(cmds) ==
  \A k \in 1..Len(cmds) :
    (cmds[k].cmd = "parted print" /\ cmds[k].gpt) =>
      ~(k < Len(cmds) /\ cmds[k + 1].cmd = "parted mklabel"
                      /\ cmds[k + 1].device = cmds[k].device)

RewriteCommands(cmds) == { k \in 1..Len(cmds) : cmds[k].cmd = "parted mklabel" }

\* C23: change_devices_to_gpt_safe checks each device's table before it
\* rewrites it and never rewrites a device reported as GPT; a second run after
\* a fully successful first run rewrites no table.
C23_GptSafeSkipsGptDevices ==
  c_op = "change_devices_to_gpt_safe" =>
    /\ RewritesFollowChecks(c_cmds)
    /\ NoRewriteAfterGptReport(c_cmds)
    /\ (c_done # <<>> /\ c_done[1].success) => RewriteCommands(c_cmds) = {}

C23_Witness ==
  /\ c_op = "change_devices_to_gpt_safe"
  /\ c_done # <<>>
  /\ c_done[1].success
  /\ c_done[1].rewrites = 2
  /\ CollectReturned
  /\ FullySuccessful(c_ret)
  /\ Len(c_cmds) = 2
  /\ \A k \in 1..Len(c_cmds) : c_cmds[k].gpt

\* ------------------------------------------------------------------ discovery
DiscoveryReturned == u_fn = "find_connected_satas" /\ u_pc = "done"

\* /sys/block can be read and names a SATA device that has its node in /dev
SysblockYields(sys) ==
  sys.readable /\ \E n \in sys.names : n \in {N_sda, N_sdb} /\ (S_dev \o n) \in sys.nodes

\* the search ran, exited with 0, wrote UTF-8 and named something
SearchYields(out) ==
  out.spawned /\ out.success /\ out.utf8 /\ \E k \in 1..Len(out.lines) : out.lines[k] # <<>>

\* no device before one that sorts before it
IsSorted(q) == \A i, j \in 1..Len(q) : i < j => ~LexLess(q[j], q[i])

Tried(source) == \E k \in 1..Len(u_log) : u_log[k] = source

\* C24: discovery tries /sys/block, then the unprivileged search, then the
\* search under sudo, in that order, each one only when the one before it gave
\* no devices, and returns what the first source that yields devices gives; a
\* result is sorted and never empty.
C24_DiscoveryOrder ==
  u_fn = "find_connected_satas" =>
    /\ \E n \in 0..3 : u_log = SubSeq(<<"sysblock", "find", "sudo_find">>, 1, n)
    /\ Tried("sysblock") => u_in.dev_dir
    /\ Tried("find") => ~SysblockYields(u_in.sysblock)
    /\ Tried("sudo_find") => ~SearchYields(u_in.find)
    /\ DiscoveryReturned =>
         /\ u_out.ok => (u_out.val # <<>> /\ IsSorted(u_out.val))
         /\ u_out.ok <=>
              /\ u_in.dev_dir
              /\ \/ SysblockYields(u_in.sysblock)
                 \/ SearchYields(u_in.find)
                 \/ SearchYields(u_in.sudo_find)
         /\ (u_in.dev_dir /\ SysblockYields(u_in.sysblock)) => u_log = <<"sysblock">>
         /\ (u_in.dev_dir /\ ~SysblockYields(u_in.sysblock) /\ SearchYields(u_in.find)) =>
              u_log = <<"sysblock", "find">>
         /\ u_out = find_connected_satas(u_in)

\* /sys/block names nothing, the unprivileged search fails, the search under
\* sudo finds /dev/sdb and /dev/sda and they come back sorted
C24_Witness ==
  /\ DiscoveryReturned
  /\ u_log = <<"sysblock", "find", "sudo_find">>
  /\ u_in.sysblock.readable
  /\ ~u_in.find.success
  /\ u_in.sudo_find.lines = <<S_sdb, S_sda>>
  /\ u_out.ok
  /\ u_out.val = <<S_sda, S_sdb>>

\* ------------------------------------------------------------- path validation
\* "/dev/sd" followed by one character of one byte
IsSataDevicePath(d) ==
  \E c \in {d[k] : k \in 1..Len(d)} : Utf8Len(c) = 1 /\ d = S_dev_sd \o <<c>>

\* C25: create_partition and change_devices_to_gpt accept a device path
\* exactly when it starts with "/dev/sd" and is 8 bytes long; on any other
\* path they fail with InvalidDevicePath and run no command for that device.
C25_InvalidPathNoCommand ==
  b_op \in {"create_partition", "change_devices_to_gpt"} =>
    /\ \A k \in 1..Len(b_cmds) : IsSataDevicePath(b_cmds[k].device)
    /\ \A k \in 1..(b_idx - 1) : IsSataDevicePath(b_devices[k])
    /\ (b_pc = "done" /\ ~b_ret.ok) =>
         /\ IsSataDevicePath(b_devices[b_idx]) <=> b_ret.err.kind # "InvalidDevicePath"
         /\ ~IsSataDevicePath(b_devices[b_idx]) =>
              /\ b_ret.err.detail = b_devices[b_idx]
              /\ Len(b_cmds) = b_idx - 1
    /\ (b_pc = "done" /\ b_ret.ok) =>
         \A k \in 1..Len(b_devices) : IsSataDevicePath(b_devices[k])

\* change_devices_to_gpt on /dev/sda and the partition path /dev/sda1
C25_Witness ==
  /\ b_pc = "done" /\ b_op = "change_devices_to_gpt"
  /\ b_devices = <<S_sda, S_sda1>>
  /\ ~b_ret.ok /\ b_ret.err.kind = "InvalidDevicePath"
  /\ Len(b_cmds) = 1

\* -------------------------------------------------------------- the validator
ValidatorReturned == u_fn = "validate_fstab" /\ u_pc = "done"

IsBlankLine(line) == \A k \in 1..Len(line) : IsSpace(line[k])

\* the first character that is not a space is '#'
IsCommentLine(line) ==
  \E k \in 1..Len(line) :
    /\ line[k] = "#"
    /\ \A j \in 1..(k - 1) : IsSpace(line[j])

\* the words of a line: the places where a run of non-space characters starts
FieldCount(line) ==
  Cardinality({ k \in 1..Len(line) :
                  ~IsSpace(line[k]) /\ (k = 1 \/ IsSpace(line[k - 1])) })

\* the lines the validator rejects
Offending(ls) ==
  { k \in 1..Len(ls) :
      ~IsBlankLine(ls[k]) /\ ~IsCommentLine(ls[k]) /\ FieldCount(ls[k]) # 6 }

FirstOf(S) == CHOOSE k \in S : \A j \in S : k <= j

\* C26: validate_fstab accepts a file exactly when every line that is
\* neither blank nor a comment has exactly 6 whitespace-separated fields;
\* otherwise it reports ValidationFailed with the 1-based number of the first
\* such line and the number of fields it has.
C26_ValidatorSixFields ==
  ValidatorReturned =>
    /\ u_out.ok <=> Offending(u_in) = {}
    /\ ~u_out.ok =>
         /\ u_out.err.kind = "ValidationFailed"
         /\ u_out.err.detail = <<FirstOf(Offending(u_in)), FieldCount(u_in[FirstOf(Offending(u_in))])>>

\* a comment, then a line of seven fields
C26_Witness ==
  /\ ValidatorReturned
  /\ u_in = <<V_comment_indented, V_seven>>
  /\ ~u_out.ok
  /\ u_out.err.detail = <<2, 7>>

\* ------------------------------------------------- the run and the registration
\* C27: when mount registration returns an error, the run of
\* smart_auto_mount_with_config returns an error too, not Ok(()).
C27_RunFailsWhenRegistrationFails ==
  (PipeReturned /\ HasStage("register") /\ ~StageOf("register").ok) => ~p_ret.ok

\* -------------------------------------------------- the lines a call leaves
\* the line is a table entry whose mount-point field is mount_point
IsEntryFor(line, mount_point) ==
  Len(SplitWhitespace(line)) >= 2 /\ SplitWhitespace(line)[2] = mount_point

\* C28: after a successful call the table holds at most one entry per mount
\* point among those the call wrote, also when the device list names a device
\* twice.
C28_OneLinePerMountPoint ==
  (Returned /\ ret.ok) =>
    \A k \in 1..Len(mount_entries) :
      EntriesFor(Table.lines, mount_entries[k].mount_point) <= 1

\* the lines that are not the entry of one of the new mount points
LinesOfOthers(lines, entries) ==
  SelectSeq(lines, LAMBDA line :
    ~\E k \in 1..Len(entries) : IsEntryFor(line, entries[k].mount_point))

\* C29: the rewrite removes a line only if it is the entry of one of the new
\* mount points; every other line stays, in its order, and the new entries
\* follow in the order they were prepared.
C29_RewriteRemovesOnlyOwnEntries ==
  (Returned /\ ret.ok /\ mount_entries # <<>>) =>
    Table.lines = LinesOfOthers(Table0.lines, mount_entries) \o NewLines(mount_entries)

\* the results that say success, in order
Successes(rs) == SelectSeq(rs, LAMBDA r : r.success)

\* the fields of the entry of a device under "/dev/": the UUID blkid answers,
\* the base path and the name after "/dev/", the configured type and options
ExpectedFields(device) ==
  <<UuidOf(device), config.mount_base_path \o <<"/">> \o SubSeq(device, 6, Len(device)),
    config.filesystem_type, config.mount_options, <<"0">>, <<"0">>>>

\* C30: when the call returns Ok having prepared an entry, the last lines of
\* the table are the entries of the results that say success, one each in
\* order, with the device's UUID, its mount point, the configured filesystem
\* and options; the lines before them were in the table already, so a result
\* that says failure added none.
C30_ResultsAgreeWithTable ==
  (Returned /\ ret.ok /\ mount_entries # <<>>) =>
    LET succ == Successes(ret.val)
        old == Len(Table.lines) - Len(succ)
    IN /\ old >= 0
       /\ \A k \in 1..Len(succ) :
            /\ SplitWhitespace(Table.lines[old + k]) = ExpectedFields(succ[k].device)
            /\ succ[k].mount_point = ExpectedFields(succ[k].device)[2]
       /\ \A k \in 1..old : \E j \in 1..Len(Table0.lines) : Table0.lines[j] = Table.lines[k]
       /\ \A k \in 1..Len(ret.val) : ~ret.val[k].success => ret.val[k].mount_point = <<>>

\* /dev/sda1 could not be prepared, /dev/sda was registered after a line that
\* was in the table
C30_Witness ==
  /\ Returned /\ ret.ok
  /\ devices = <<S_sda1, S_sda>>
  /\ ~ret.val[1].success /\ ret.val[2].success
  /\ Table0.lines = <<L_root>>
  /\ Len(Table.lines) = 2

\* ------------------------------------------------------- backup disabled
ApplyFailed == Did("apply") /\ ~DidWith("apply", "ok")

\* C31: with backup_fstab = false no backup file is created and no restore
\* is attempted; when mount -a fails after the rename, the call returns the
\* error of mount -a and the table keeps the rewritten content, new entries
\* included.
C31_NoBackupNoRollback ==
  ~config.backup_fstab =>
    /\ backup_path = None
    /\ files[backup_file_path] = NoFile
    /\ ~Did("backup")
    /\ ~Did("restore")
    /\ (Returned /\ ApplyFailed) =>
         /\ ~ret.ok
         /\ ret.err.at = "mount"
         /\ ret.err.kind \in {"CommandFailed", "IoError"}
         /\ Table.exists
         /\ Table.lines = RetainLines(Table0.lines, mount_entries) \o NewLines(mount_entries)
         /\ \A k \in 1..Len(mount_entries) :
              \E j \in 1..Len(Table.lines) : Table.lines[j] = FstabLine(mount_entries[k])

\* backup disabled, /dev/sda registered after the line of another mount
\* point, mount -a exits with an error
C31_Witness ==
  /\ ~config.backup_fstab
  /\ Returned /\ ApplyFailed
  /\ ret.err.kind = "CommandFailed"
  /\ devices = <<S_sda>>
  /\ Table0.lines = <<L_root>>
  /\ Len(Table.lines) = 2

\* ------------------------------------------------------ overlapping calls
WritersReturned == w_pc # <<>> /\ \A p \in Writers : w_pc[p] = "done"

\* the table holds the entry of the call
HoldsEntryOf(p) ==
  \E j \in 1..Len(w_files[fstab_path].lines) :
    w_files[fstab_path].lines[j] = FstabLine(WriterEntry(p))

\* the table holds every line it held before the calls
HoldsOldLines ==
  \A k \in 1..Len(w_table0.lines) :
    \E j \in 1..Len(w_files[fstab_path].lines) :
      w_files[fstab_path].lines[j] = w_table0.lines[k]

\* C32: two register calls for different devices that overlap on the same
\* table: when both return Ok the table holds the entries of both and every
\* line it held before; when one fails and rolls back, the entry of the one
\* that returned Ok is still in the table.
C32_OverlappingCallsKeepBoth ==
  WritersReturned =>
    /\ (\A p \in Writers : w_ret[p].ok) =>
         ((\A p \in Writers : HoldsEntryOf(p)) /\ HoldsOldLines)
    /\ \A p \in Writers : w_ret[p].ok => HoldsEntryOf(p)

\* ------------------------------------------------------------ termination
\* the run is a direct call of the registrar
DirectCall == p_pc = "idle"

Ended == IF DirectCall THEN pc = "done" ELSE p_pc = "done"

\* Mounted (Ok) or Failed (a returned error)
EndedInResult ==
  IF DirectCall THEN ret.ok \/ ret.err # NoErr
  ELSE p_ret.ok \/ p_ret.err.variant # "none"

PcRank(at) ==
  CASE at = "idle" -> 0
    [] at = "backup" -> 1
    [] at = "prepare" -> 2
    [] at = "read" -> 3
    [] at = "write" -> 4
    [] at = "validate" -> 5
    [] at = "rename" -> 6
    [] at = "apply" -> 7
    [] at = "failed" -> 8
    [] at = "done" -> 9

PipeRank(at) ==
  CASE at = "idle" -> 0
    [] at = "discover" -> 1
    [] at = "filter" -> 2
    [] at = "decide" -> 3
    [] at = "convert" -> 4
    [] at = "partition" -> 5
    [] at = "format" -> 6
    [] at = "register" -> 7
    [] at = "done" -> 8

\* no step goes back to a stage, and a loop that stays in its stage moves to
\* the next element of its list
StepForward ==
  /\ PcRank(pc') >= PcRank(pc)
  /\ PipeRank(p_pc') >= PipeRank(p_pc)
  /\ (pc = "prepare" /\ pc' = "prepare") => idx' = idx + 1
  /\ (b_pc = "loop" /\ b_pc' = "loop") => b_idx' = b_idx + 1
  /\ (f_pc = "collect" /\ f_pc' = "collect") => Len(device_infos') = Len(device_infos) + 1

\* no operation of the registrar but the per-device preparation is logged
\* twice, no stage of the pipeline returns twice
NoStageTwice ==
  /\ \A i, j \in 1..Len(log) : (i < j /\ log[i].op = log[j].op) => log[i].op = "prepare"
  /\ \A i, j \in 1..Len(p_log) : i < j => p_log[i].stage # p_log[j].stage

\* the preparations done so far: the k-th is the one of devices[k]
Prepared == Cardinality({k \in 1..Len(log) : log[k].op = "prepare"})

\* every element of the device list is prepared at most once, every element
\* of a batch is run at most once
ElementsOnce ==
  /\ Prepared <= Len(devices)
  /\ idx <= Len(devices) + 1
  /\ Len(b_cmds) <= Len(b_devices)
  /\ Len(lsblk_outs) <= Len(f_devices)

TimesPrepared(d) == Cardinality({k \in 1..Prepared : devices[k] = d})

\* every device is prepared at most once
DevicesOnce == \A d \in DeviceUniverse : TimesPrepared(d) <= 1

LegacyReturned == u_fn = "mount_devices" /\ u_pc = "done" /\ u_out.returned

\* the entries of the devices, blkid answering with their UUIDs
LegacyEntries(devs) ==
  [k \in 1..Len(devs) |->
     MountEntry(devs[k], UuidOf(devs[k]), S_mnt \o <<"/">> \o LastSegment(devs[k]),
                S_ext4, S_rw_acl)]

\* C34: after mount_devices of lib.rs returns, the table file holds the
\* retained old lines followed by the new entries, joined by newlines, and
\* not one byte more, whatever it held before.
C34_TableIsExactlyNewContent ==
  LegacyReturned =>
    u_out.bytes = JoinLines(RetainLines(u_in.table.lines, LegacyEntries(u_in.devices))
                            \o NewLines(LegacyEntries(u_in.devices)))

====
